---- MODULE Spec2Model ----
(***************************************************************************)
(* TimelineProcessor (src/js/timeline.js): the conversion of TyranoScript  *)
(* files into interval events on a pacing clock.                           *)
(*                                                                         *)
(* Representation.                                                         *)
(*  - Times are counted in half pacing units, so that the sound-effect     *)
(*    length 0.5 is the integer Half and one click is One = 2 * Half.      *)
(*  - An event object is a record; the arrays and slots that share it in   *)
(*    JavaScript (events, tracks, active slots) hold its index in events.    *)
(*    events only grows between two clear() calls, so an index names one   *)
(*    object for as long as the object exists.                             *)
(*  - null (an unset endTime, an empty slot) is the number null = -1;      *)
(*    a missing tag parameter (undefined) is the string Undefined.         *)
(*  - Of an event's attributes, those that are plain copies of tag         *)
(*    parameters and are read by no operation (line, x, y, face, loop,     *)
(*    buf) are left out; storage stands for them.                          *)
(*  - The text of a text event is the sequence of the buffered fragments   *)
(*    (textBuffer.join('')).                                               *)
(*  - processFile is one synchronous call.  Its loop over the lines is     *)
(*    unrolled into steps: one step per line for comment, halt, label,     *)
(*    at-form and speaker lines; for a line of bracket tags and text, one  *)
(*    step per piece consumed by processLineWithTags followed by one step  *)
(*    (EndTagLine) for the pacing code that follows it.  The content of    *)
(*    the file is drawn piece by piece as the loop reaches it.             *)
(***************************************************************************)
EXTENDS Integers, Sequences, FiniteSets, TLC

\* ---------------------------------------------------------------- bounds
MaxFiles == 2      \* processFile calls between two clear() calls
MaxPieces == 3     \* lines and tags handed in between two clear() calls
MaxTags == 3       \* tags and text pieces on one line
MaxScenarioPieces == 4  \* lines and tags of a session of the scenarios
MaxBuilds == 2     \* invocations of buildAndRenderTimeline (clicks on the tab)
MaxStoryFiles == 3 \* files registered in parsedFiles

\* ------------------------------------------------------------- constants
One == 2           \* this.currentTime += 1
Half == 1          \* this.currentTime + 0.5
null == -1
Undefined == "undefined"

VARIABLES
    \* fields of TimelineProcessor
    events, tracks, currentTime, totalTime,
    activeBgm, activeImages, activeCharas, activeBg, activeVideo,
    \* processFile: its position, argument and locals
    pc, filename, currentSpeaker, textBuffer, textStartTime,
    hasExternalJump, passedJumpAndStop, hasVisualContent, firstCmSkipped,
    \* the line of tags and text being scanned: the pieces matched so far,
    \* and how many of them the regular expressions of lines 178, 191 and
    \* 198 match
    tagIndex, pMatches, lMatches, cmMatches,
    \* the caller: calls made since construction or the last clear()
    phase, nFiles, nPieces,
    \* history: what the file of the latest call has shown, and the clock at
    \* the start of the line being scanned
    seen, lineStartTime,
    \* history of the dialogue text and the pacing commands of that file
    dialogue,
    \* TyranoFlowApp: the parsed files in the order of their registration,
    \* the file names that have a handle, and the invocations of
    \* buildAndRenderTimeline (position, sorted story files, index)
    parsedFiles, fileHandles, builds,
    \* history: the calls made on the timeline, with the invocation that
    \* made each
    calls

procVars == <<events, tracks, currentTime, totalTime,
              activeBgm, activeImages, activeCharas, activeBg, activeVideo>>
fileVars == <<filename, currentSpeaker, textBuffer, textStartTime,
              hasExternalJump, passedJumpAndStop, hasVisualContent, firstCmSkipped>>
lineVars == <<tagIndex, pMatches, lMatches, cmMatches>>
histVars == <<seen, lineStartTime, dialogue>>
appVars == <<parsedFiles, fileHandles, builds, calls>>
vars == <<procVars, fileVars, lineVars, pc, phase, nFiles, nPieces, histVars,
          appVars>>

\* ------------------------------------------------------------ the object
EmptyMap == [k \in {} |-> null]

EmptyTracks ==
    [text |-> <<>>, bg |-> <<>>, image |-> EmptyMap, chara |-> EmptyMap,
     video |-> <<>>, bgm |-> <<>>, se |-> <<>>]

\* The object as one value.
This ==
    [events |-> events, tracks |-> tracks,
     currentTime |-> currentTime, totalTime |-> totalTime,
     activeBgm |-> activeBgm, activeImages |-> activeImages,
     activeCharas |-> activeCharas, activeBg |-> activeBg,
     activeVideo |-> activeVideo]

\* clear() without its line 46: totalTime keeps its value.
FreshButTotal ==
    [events |-> <<>>, tracks |-> EmptyTracks,
     currentTime |-> 0, totalTime |-> totalTime,
     activeBgm |-> null, activeImages |-> EmptyMap,
     activeCharas |-> EmptyMap, activeBg |-> null,
     activeVideo |-> null]

\* The object after construction and after clear().
Fresh ==
    [events |-> <<>>, tracks |-> EmptyTracks,
     currentTime |-> 0, totalTime |-> 0,
     activeBgm |-> null, activeImages |-> EmptyMap,
     activeCharas |-> EmptyMap, activeBg |-> null,
     activeVideo |-> null]

\* Assignment of the object's fields.
Store(t) ==
    /\ events' = t.events
    /\ tracks' = t.tracks
    /\ currentTime' = t.currentTime
    /\ totalTime' = t.totalTime
    /\ activeBgm' = t.activeBgm
    /\ activeImages' = t.activeImages
    /\ activeCharas' = t.activeCharas
    /\ activeBg' = t.activeBg
    /\ activeVideo' = t.activeVideo

\* Map.has, Map.set, Map.delete and the values of a Map.
Has(m, k) == k \in DOMAIN m
MapSet(m, k, v) == [x \in DOMAIN m \cup {k} |-> IF x = k THEN v ELSE m[x]]
MapDelete(m, k) == [x \in DOMAIN m \ {k} |-> m[x]]
Values(m) == {m[k] : k \in DOMAIN m}

\* event.endTime = time, for the event object with index id.
SetEnd(t, id, time) == [t EXCEPT !.events[id].endTime = time]

\* !event.endTime
Falsy(time) == time = null \/ time = 0

\* ------------------------------------------------------ command handlers
NoParams == [storage |-> Undefined, layer |-> Undefined, name |-> Undefined]

\* processBg without its lines 349-351: the previous background stays open.
processBgKeepOpen(t, params, fname) ==
    LET event == [type |-> "bg", storage |-> params.storage,
                  startTime |-> t.currentTime, endTime |-> null,
                  filename |-> fname]
        id == Len(t.events) + 1
    IN  [t EXCEPT !.tracks.bg = Append(@, id),
                  !.activeBg = id,
                  !.events = Append(@, event)]

processBg(t, params, fname) ==
    LET t1 == IF t.activeBg # null THEN SetEnd(t, t.activeBg, t.currentTime) ELSE t
        event == [type |-> "bg", storage |-> params.storage,
                  startTime |-> t.currentTime, endTime |-> null,
                  filename |-> fname]
        id == Len(t.events) + 1
    IN  [t1 EXCEPT !.tracks.bg = Append(@, id),
                   !.activeBg = id,
                   !.events = Append(@, event)]

\* processImage that keeps one image track for all layers.
processImageOneTrack(t, params, fname) ==
    LET layer == IF params.layer = Undefined THEN "0" ELSE params.layer
        t1 == IF Has(t.activeImages, layer)
              THEN SetEnd(t, t.activeImages[layer], t.currentTime) ELSE t
        event == [type |-> "image", layer |-> layer, storage |-> params.storage,
                  startTime |-> t.currentTime, endTime |-> null,
                  filename |-> fname]
        id == Len(t.events) + 1
        key == "layer0"
        old == IF Has(t.tracks.image, key) THEN t.tracks.image[key] ELSE <<>>
    IN  [t1 EXCEPT !.tracks.image = MapSet(@, key, Append(old, id)),
                   !.activeImages = MapSet(@, layer, id),
                   !.events = Append(@, event)]

processImage(t, params, fname) ==
    LET layer == IF params.layer = Undefined THEN "0" ELSE params.layer
        t1 == IF Has(t.activeImages, layer)
              THEN SetEnd(t, t.activeImages[layer], t.currentTime) ELSE t
        event == [type |-> "image", layer |-> layer, storage |-> params.storage,
                  startTime |-> t.currentTime, endTime |-> null,
                  filename |-> fname]
        id == Len(t.events) + 1
        key == "layer" \o layer
        old == IF Has(t.tracks.image, key) THEN t.tracks.image[key] ELSE <<>>
    IN  [t1 EXCEPT !.tracks.image = MapSet(@, key, Append(old, id)),
                   !.activeImages = MapSet(@, layer, id),
                   !.events = Append(@, event)]

processFreeImage(t, params, fname) ==
    LET layer == IF params.layer # Undefined THEN params.layer ELSE params.name
    IN  IF layer # Undefined /\ Has(t.activeImages, layer)
        THEN [SetEnd(t, t.activeImages[layer], t.currentTime)
                 EXCEPT !.activeImages = MapDelete(@, layer)]
        ELSE t

processCharaShow(t, params, fname) ==
    LET name == params.name
        t1 == IF Has(t.activeCharas, name)
              THEN SetEnd(t, t.activeCharas[name], t.currentTime) ELSE t
        event == [type |-> "chara", name |-> name, storage |-> params.storage,
                  startTime |-> t.currentTime, endTime |-> null,
                  filename |-> fname]
        id == Len(t.events) + 1
        old == IF Has(t.tracks.chara, name) THEN t.tracks.chara[name] ELSE <<>>
    IN  IF name = Undefined THEN t
        ELSE [t1 EXCEPT !.tracks.chara = MapSet(@, name, Append(old, id)),
                        !.activeCharas = MapSet(@, name, id),
                        !.events = Append(@, event)]

processCharaHide(t, params, fname) ==
    LET name == params.name
    IN  IF name # Undefined /\ Has(t.activeCharas, name)
        THEN [SetEnd(t, t.activeCharas[name], t.currentTime)
                 EXCEPT !.activeCharas = MapDelete(@, name)]
        ELSE t

processCharaHideAll(t, fname) ==
    [t EXCEPT !.events = [i \in DOMAIN t.events |->
                             IF i \in Values(t.activeCharas)
                             THEN [t.events[i] EXCEPT !.endTime = t.currentTime]
                             ELSE t.events[i]],
              !.activeCharas = EmptyMap]

\* if (this.activeVideo) { this.activeVideo.endTime = this.currentTime;
\*                         this.activeVideo = null; }
CloseActiveVideo(t) ==
    IF t.activeVideo # null
    THEN [SetEnd(t, t.activeVideo, t.currentTime) EXCEPT !.activeVideo = null]
    ELSE t

\* processVideo without its lines 483-491: movie and bgmovie open an event
\* as video does.
processVideoOpen(t, command, params, fname) ==
    LET t1 == CloseActiveVideo(t)
        event == [type |-> "video", command |-> command, storage |-> params.storage,
                  startTime |-> t.currentTime, endTime |-> null,
                  filename |-> fname]
        id == Len(t.events) + 1
    IN  [t1 EXCEPT !.tracks.video = Append(@, id),
                   !.events = Append(@, event),
                   !.activeVideo = id]

processVideo(t, command, params, fname) ==
    LET t1 == CloseActiveVideo(t)
        event == [type |-> "video", command |-> command, storage |-> params.storage,
                  startTime |-> t.currentTime, endTime |-> null,
                  filename |-> fname]
        id == Len(t.events) + 1
        t2 == [t1 EXCEPT !.tracks.video = Append(@, id),
                         !.events = Append(@, event)]
    IN  IF command = "movie" \/ command = "bgmovie"
        THEN [t2 EXCEPT !.currentTime = @ + One,
                        !.events[id].endTime = t2.currentTime + One]
        ELSE [t2 EXCEPT !.activeVideo = id]

processWaitVideo(t, fname) == CloseActiveVideo(t)

processFreeVideo(t, fname) == CloseActiveVideo(t)

\* processBgmStart without its lines 523-525: the music that was playing is
\* not closed.
processBgmStartKeepOpen(t, command, params, fname) ==
    LET event == [type |-> "bgm", command |-> command, storage |-> params.storage,
                  startTime |-> t.currentTime, endTime |-> null,
                  filename |-> fname]
        id == Len(t.events) + 1
    IN  [t EXCEPT !.tracks.bgm = Append(@, id),
                  !.activeBgm = id,
                  !.events = Append(@, event)]

processBgmStart(t, command, params, fname) ==
    LET t1 == IF t.activeBgm # null THEN SetEnd(t, t.activeBgm, t.currentTime) ELSE t
        event == [type |-> "bgm", command |-> command, storage |-> params.storage,
                  startTime |-> t.currentTime, endTime |-> null,
                  filename |-> fname]
        id == Len(t.events) + 1
    IN  [t1 EXCEPT !.tracks.bgm = Append(@, id),
                   !.activeBgm = id,
                   !.events = Append(@, event)]

processBgmStop(t, fname) ==
    IF t.activeBgm # null
    THEN [SetEnd(t, t.activeBgm, t.currentTime) EXCEPT !.activeBgm = null]
    ELSE t

\* processSe with endTime: this.currentTime.
processSeNoLength(t, command, params, fname) ==
    LET event == [type |-> "se", command |-> command, storage |-> params.storage,
                  startTime |-> t.currentTime, endTime |-> t.currentTime,
                  filename |-> fname]
        id == Len(t.events) + 1
    IN  [t EXCEPT !.tracks.se = Append(@, id),
                  !.events = Append(@, event)]

processSe(t, command, params, fname) ==
    LET event == [type |-> "se", command |-> command, storage |-> params.storage,
                  startTime |-> t.currentTime, endTime |-> t.currentTime + Half,
                  filename |-> fname]
        id == Len(t.events) + 1
    IN  [t EXCEPT !.tracks.se = Append(@, id),
                  !.events = Append(@, event)]

\* addTextEvent without its line 584: the event is not put on the text
\* track.
addTextEventNoTrack(t, speaker, text, startTime, endTime, fname) ==
    LET event == [type |-> "text", speaker |-> speaker, text |-> text,
                  startTime |-> startTime, endTime |-> endTime,
                  filename |-> fname]
    IN  IF text = <<>> THEN t
        ELSE [t EXCEPT !.events = Append(@, event)]

\* text is never blank here: only non-blank pieces reach the buffer.
addTextEvent(t, speaker, text, startTime, endTime, fname) ==
    LET event == [type |-> "text", speaker |-> speaker, text |-> text,
                  startTime |-> startTime, endTime |-> endTime,
                  filename |-> fname]
        id == Len(t.events) + 1
    IN  IF text = <<>> THEN t
        ELSE [t EXCEPT !.tracks.text = Append(@, id),
                       !.events = Append(@, event)]

\* processCommand with a default branch that treats any other name as bg.
processCommandDefaultBg(t, command, params, fname) ==
    CASE command = "bg" -> processBg(t, params, fname)
      [] command = "image" -> processImage(t, params, fname)
      [] command = "freeimage" -> processFreeImage(t, params, fname)
      [] command = "chara_show" -> processCharaShow(t, params, fname)
      [] command = "chara_hide" -> processCharaHide(t, params, fname)
      [] command = "chara_hide_all" -> processCharaHideAll(t, fname)
      [] command \in {"video", "movie", "bgmovie"} -> processVideo(t, command, params, fname)
      [] command = "wait_video" -> processWaitVideo(t, fname)
      [] command = "free_video" -> processFreeVideo(t, fname)
      [] command \in {"playbgm", "fadeinbgm"} -> processBgmStart(t, command, params, fname)
      [] command \in {"stopbgm", "fadeoutbgm"} -> processBgmStop(t, fname)
      [] command \in {"playse", "fadeinse"} -> processSe(t, command, params, fname)
      [] OTHER -> processBg(t, params, fname)

processCommand(t, command, params, fname) ==
    CASE command = "bg" -> processBg(t, params, fname)
      [] command = "image" -> processImage(t, params, fname)
      [] command = "freeimage" -> processFreeImage(t, params, fname)
      [] command = "chara_show" -> processCharaShow(t, params, fname)
      [] command = "chara_hide" -> processCharaHide(t, params, fname)
      [] command = "chara_hide_all" -> processCharaHideAll(t, fname)
      [] command \in {"video", "movie", "bgmovie"} -> processVideo(t, command, params, fname)
      [] command = "wait_video" -> processWaitVideo(t, fname)
      [] command = "free_video" -> processFreeVideo(t, fname)
      [] command \in {"playbgm", "fadeinbgm"} -> processBgmStart(t, command, params, fname)
      [] command \in {"stopbgm", "fadeoutbgm"} -> processBgmStop(t, fname)
      [] command \in {"playse", "fadeinse"} -> processSe(t, command, params, fname)
      [] OTHER -> t

\* finalize without its lines 604-616: only the three single slots are closed.
finalizeSlotsOnly(t) ==
    LET tt == t.currentTime
        slots == {t.activeBgm, t.activeBg, t.activeVideo}
    IN  [t EXCEPT !.totalTime = tt,
                  !.events = [i \in DOMAIN t.events |->
                                 IF i \in slots
                                 THEN [t.events[i] EXCEPT !.endTime = tt]
                                 ELSE t.events[i]]]

\* finalize without its line 592: totalTime is not set.
finalizeStaleTotal(t) ==
    LET tt == t.currentTime
        slots == {t.activeBgm, t.activeBg, t.activeVideo}
        maps == Values(t.activeImages) \cup Values(t.activeCharas)
        close(i) ==
            LET e == t.events[i]
            IN  IF i \in slots THEN [e EXCEPT !.endTime = tt]
                ELSE IF i \in maps /\ Falsy(e.endTime) THEN [e EXCEPT !.endTime = tt]
                ELSE IF e.endTime = null THEN [e EXCEPT !.endTime = tt]
                ELSE e
    IN  [t EXCEPT !.events = [i \in DOMAIN t.events |-> close(i)]]

finalize(t) ==
    LET tt == t.currentTime
        slots == {t.activeBgm, t.activeBg, t.activeVideo}
        maps == Values(t.activeImages) \cup Values(t.activeCharas)
        close(i) ==
            LET e == t.events[i]
            IN  IF i \in slots THEN [e EXCEPT !.endTime = tt]
                ELSE IF i \in maps /\ Falsy(e.endTime) THEN [e EXCEPT !.endTime = tt]
                ELSE IF e.endTime = null THEN [e EXCEPT !.endTime = tt]
                ELSE e
    IN  [t EXCEPT !.totalTime = tt,
                  !.events = [i \in DOMAIN t.events |-> close(i)]]

\* getEventsAtTime with an inclusive end: e.endTime >= time.
getEventsAtTimeInclusive(t, time) ==
    SelectSeq(t.events, LAMBDA e : e.startTime <= time /\ e.endTime >= time)

\* this.events.filter(e => e.startTime <= time && e.endTime > time)
getEventsAtTime(t, time) ==
    SelectSeq(t.events, LAMBDA e : e.startTime <= time /\ e.endTime > time)

\* Object.keys(...).sort() over the names and the layer keys the files may
\* hold: the keys of a map in ascending order.
CharaKeyOrder == <<"akane", "yamato">>

ImageKeyOrder == <<"layer0", "layer1">>

SortedKeys(map, order) == SelectSeq(order, LAMBDA k : Has(map, k))

\* One entry of the track list (the display name is left out).
Track(id, type, evs) == [id |-> id, type |-> type, events |-> evs]

\* A single track, when it is not empty.
TrackIf(id, evs) == IF Len(evs) > 0 THEN <<Track(id, id, evs)>> ELSE <<>>

\* The tracks of a map, in the order of the keys.
RECURSIVE TracksOfMap(_, _, _, _)
TracksOfMap(map, keys, type, prefix) ==
    IF keys = <<>> THEN <<>>
    ELSE LET k == Head(keys)
             one == IF Len(map[k]) > 0
                    THEN <<Track(prefix \o k, type, map[k])>> ELSE <<>>
         IN  one \o TracksOfMap(map, Tail(keys), type, prefix)

getTrackList(t) ==
    TrackIf("text", t.tracks.text)
    \o TrackIf("bg", t.tracks.bg)
    \o TracksOfMap(t.tracks.chara, SortedKeys(t.tracks.chara, CharaKeyOrder),
                   "chara", "chara_")
    \o TracksOfMap(t.tracks.image, SortedKeys(t.tracks.image, ImageKeyOrder),
                   "image", "")
    \o TrackIf("video", t.tracks.video)
    \o TrackIf("bgm", t.tracks.bgm)
    \o TrackIf("se", t.tracks.se)

\* Object.values(map).reduce((sum, arr) => sum + arr.length, 0)
RECURSIVE SumOfLengths(_, _)
SumOfLengths(map, keys) ==
    IF keys = {} THEN 0
    ELSE LET k == CHOOSE x \in keys : TRUE
         IN  Len(map[k]) + SumOfLengths(map, keys \ {k})

\* getStats that counts the tracks of the maps instead of their events.
getStatsPerTrack(t) ==
    [totalTime |-> t.totalTime,
     totalEvents |-> Len(t.events),
     trackCount |-> Len(getTrackList(t)),
     bgmCount |-> Len(t.tracks.bgm),
     seCount |-> Len(t.tracks.se),
     imageCount |-> Cardinality(DOMAIN t.tracks.image),
     charaCount |-> Cardinality(DOMAIN t.tracks.chara),
     textCount |-> Len(t.tracks.text)]

getStats(t) ==
    [totalTime |-> t.totalTime,
     totalEvents |-> Len(t.events),
     trackCount |-> Len(getTrackList(t)),
     bgmCount |-> Len(t.tracks.bgm),
     seCount |-> Len(t.tracks.se),
     imageCount |-> SumOfLengths(t.tracks.image, DOMAIN t.tracks.image),
     charaCount |-> SumOfLengths(t.tracks.chara, DOMAIN t.tracks.chara),
     textCount |-> Len(t.tracks.text)]

\* ------------------------------------------------- processFile: the frame
\* currentSpeaker = null
NoSpeaker == "<null>"

\* The object together with the locals of the running processFile call.
Frame ==
    [t |-> This, filename |-> filename,
     currentSpeaker |-> currentSpeaker, textBuffer |-> textBuffer,
     textStartTime |-> textStartTime,
     hasExternalJump |-> hasExternalJump,
     passedJumpAndStop |-> passedJumpAndStop,
     hasVisualContent |-> hasVisualContent,
     firstCmSkipped |-> firstCmSkipped]

StoreFrame(f) ==
    /\ Store(f.t)
    /\ filename' = f.filename
    /\ currentSpeaker' = f.currentSpeaker
    /\ textBuffer' = f.textBuffer
    /\ textStartTime' = f.textStartTime
    /\ hasExternalJump' = f.hasExternalJump
    /\ passedJumpAndStop' = f.passedJumpAndStop
    /\ hasVisualContent' = f.hasVisualContent
    /\ firstCmSkipped' = f.firstCmSkipped

\* The locals once the call has returned (they no longer exist).
NoFrame(t) ==
    [t |-> t, filename |-> 0,
     currentSpeaker |-> NoSpeaker, textBuffer |-> <<>>,
     textStartTime |-> 0,
     hasExternalJump |-> FALSE, passedJumpAndStop |-> FALSE,
     hasVisualContent |-> FALSE, firstCmSkipped |-> FALSE]

\* EnterFile with the clock started again for the file.
EnterFileClockReset(t, fname) ==
    LET t1 == [CloseActiveVideo(t) EXCEPT !.currentTime = 0]
    IN  [t |-> t1, filename |-> fname,
         currentSpeaker |-> NoSpeaker, textBuffer |-> <<>>,
         textStartTime |-> t1.currentTime,
         hasExternalJump |-> FALSE, passedJumpAndStop |-> FALSE,
         hasVisualContent |-> FALSE, firstCmSkipped |-> FALSE]

\* EnterFile without its lines 63-66: the carried-over video stays open.
EnterFileKeepVideo(t, fname) ==
    [t |-> t, filename |-> fname,
     currentSpeaker |-> NoSpeaker, textBuffer |-> <<>>,
     textStartTime |-> t.currentTime,
     hasExternalJump |-> FALSE, passedJumpAndStop |-> FALSE,
     hasVisualContent |-> FALSE, firstCmSkipped |-> FALSE]

\* EnterFile closing the carried-over music as it closes the video.
EnterFileStopBgm(t, fname) ==
    LET t1 == processBgmStop(CloseActiveVideo(t), fname)
    IN  [t |-> t1, filename |-> fname,
         currentSpeaker |-> NoSpeaker, textBuffer |-> <<>>,
         textStartTime |-> t1.currentTime,
         hasExternalJump |-> FALSE, passedJumpAndStop |-> FALSE,
         hasVisualContent |-> FALSE, firstCmSkipped |-> FALSE]

\* Lines 61-75: the carried-over video is closed, the locals are declared.
EnterFile(t, fname) ==
    LET t1 == CloseActiveVideo(t)
    IN  [t |-> t1, filename |-> fname,
         currentSpeaker |-> NoSpeaker, textBuffer |-> <<>>,
         textStartTime |-> t1.currentTime,
         hasExternalJump |-> FALSE, passedJumpAndStop |-> FALSE,
         hasVisualContent |-> FALSE, firstCmSkipped |-> FALSE]

\* if (textBuffer.length > 0) { this.addTextEvent(..., endTime, filename);
\*                              textBuffer = []; }
FlushText(f, endTime) ==
    IF Len(f.textBuffer) > 0
    THEN [f EXCEPT !.t = addTextEvent(f.t, f.currentSpeaker, f.textBuffer,
                                      f.textStartTime, endTime, f.filename),
                   !.textBuffer = <<>>]
    ELSE f

Advance(f, n) == [f EXCEPT !.t.currentTime = @ + n * One]

\* String.prototype.endsWith
EndsWith(s, suffix) ==
    /\ Len(s) >= Len(suffix)
    /\ SubSeq(s, Len(s) - Len(suffix) + 1, Len(s)) = suffix

\* Lines 84-95: a jump whose storage ends in .ks, in bracket or at-form.
DetectJump(f, cmd) ==
    IF /\ cmd.name = "jump"
       /\ cmd.params.storage # Undefined
       /\ EndsWith(cmd.params.storage, ".ks")
    THEN [f EXCEPT !.hasExternalJump = TRUE]
    ELSE f

\* HaltSeen without the test of hasExternalJump.
HaltSeenAlways(f) == [f EXCEPT !.passedJumpAndStop = TRUE]

\* Lines 98-104 ([s]) and 120-126 (@s).
HaltSeen(f) ==
    IF f.hasExternalJump THEN [f EXCEPT !.passedJumpAndStop = TRUE] ELSE f

\* Lines 131-139: @p.
atP(f) ==
    LET f1 == FlushText(f, f.t.currentTime + One)
        f2 == Advance(f1, 1)
    IN  [f2 EXCEPT !.textStartTime = f2.t.currentTime,
                   !.hasVisualContent = TRUE]

\* Lines 140-142: @l.
atL(f) == [Advance(f, 1) EXCEPT !.hasVisualContent = TRUE]

\* Lines 143-156 (@cm, n = 1) and 198-213 ([cm], n = cmMatches.length).
messageClear(f, n) ==
    LET f1 == IF Len(f.textBuffer) > 0
              THEN [FlushText(f, f.t.currentTime + One)
                       EXCEPT !.hasVisualContent = TRUE]
              ELSE f
        f2 == IF f1.hasVisualContent \/ f1.firstCmSkipped
              THEN Advance(f1, n)
              ELSE [f1 EXCEPT !.firstCmSkipped = TRUE]
    IN  [f2 EXCEPT !.textStartTime = f2.t.currentTime]

atCm(f) == messageClear(f, 1)

\* bracketP with the text ended at this.currentTime.
bracketPEndNow(f, n) ==
    IF n > 0
    THEN LET f1 == FlushText(f, f.t.currentTime)
             f2 == Advance(f1, n)
         IN  [f2 EXCEPT !.textStartTime = f2.t.currentTime,
                        !.hasVisualContent = TRUE]
    ELSE f

\* Lines 177-188: the [p] tags of the line.
bracketP(f, n) ==
    IF n > 0
    THEN LET f1 == FlushText(f, f.t.currentTime + One)
             f2 == Advance(f1, n)
         IN  [f2 EXCEPT !.textStartTime = f2.t.currentTime,
                        !.hasVisualContent = TRUE]
    ELSE f

\* bracketL with this.currentTime += 1 for the whole line.
bracketLOnce(f, n) ==
    IF n > 0 THEN [Advance(f, 1) EXCEPT !.hasVisualContent = TRUE] ELSE f

\* Lines 190-195: the [l] tags of the line.
bracketL(f, n) ==
    IF n > 0 THEN [Advance(f, n) EXCEPT !.hasVisualContent = TRUE] ELSE f

\* Lines 197-213: the [cm] tags of the line.
bracketCm(f, n) == IF n > 0 THEN messageClear(f, n) ELSE f

\* speakerLine with this.currentTime += 1.
speakerLineTick(f, name) ==
    LET f1 == Advance(FlushText(f, f.t.currentTime), 1)
    IN  [f1 EXCEPT !.currentSpeaker = IF name = "" THEN NoSpeaker ELSE name,
                   !.textStartTime = f1.t.currentTime]

\* speakerLine without its lines 162-166: the buffer is not flushed.
speakerLineNoFlush(f, name) ==
    [f EXCEPT !.currentSpeaker = IF name = "" THEN NoSpeaker ELSE name,
              !.textStartTime = f.t.currentTime]

\* Lines 160-170: a speaker line; name is the text between # and the first
\* colon, trimmed ("" for a bare #).
speakerLine(f, name) ==
    LET f1 == FlushText(f, f.t.currentTime)
    IN  [f1 EXCEPT !.currentSpeaker = IF name = "" THEN NoSpeaker ELSE name,
                   !.textStartTime = f1.t.currentTime]

\* processFile without its lines 219-222: the remaining buffer is dropped.
flushRestDropped(f) == [f EXCEPT !.textBuffer = <<>>]

\* Lines 219-222: what is left in the buffer when the loop is left.
flushRest(f) == FlushText(f, f.t.currentTime)

\* Lines 116-158: an at-form line other than @s.
atLine(f, cmd) ==
    LET f1 == DetectJump(f, cmd)
        f2 == [f1 EXCEPT !.t = processCommand(f1.t, cmd.name, cmd.params, f1.filename)]
    IN  CASE cmd.name = "p" -> atP(f2)
          [] cmd.name = "l" -> atL(f2)
          [] cmd.name = "cm" -> atCm(f2)
          [] OTHER -> f2

\* Lines 252-274: one tag matched by processLineWithTags (the jump test of
\* line 85 reads the same tag; nothing reads its result before the line ends).
tagOfLine(f, cmd) ==
    LET f1 == DetectJump(f, cmd)
    IN  [f1 EXCEPT !.t = processCommand(f1.t, cmd.name, cmd.params, f1.filename)]

\* Lines 173-175, 254-257, 277-281: a non-blank text piece reaches the buffer.
textOfLine(f, text) == [f EXCEPT !.textBuffer = Append(@, text)]

\* ------------------------------------------------------------ the inputs
Layers == {"1"}
Names == {"akane", "yamato"}
Speakers == {"Alice", ""}
Texts == {"Hello."}

Params(s, l, n) == [storage |-> s, layer |-> l, name |-> n]
Cmd(name, params) == [name |-> name, params |-> params]

\* The tags a file may hold: the recognised commands, the pacing tags, the
\* jump and halt tags, and a name processCommand does not know (r).  The
\* second names of a handler (fadeinbgm, fadeoutbgm, fadeinse, bgmovie,
\* free_video) reach the same code as the first and are not drawn.
Commands ==
    {Cmd(n, NoParams) :
        n \in {"p", "l", "cm", "r", "s", "chara_hide_all",
               "wait_video", "stopbgm"}}
    \cup {Cmd("bg", Params("room.png", Undefined, Undefined)),
          Cmd("video", Params("op.mp4", Undefined, Undefined)),
          Cmd("movie", Params("op.mp4", Undefined, Undefined)),
          Cmd("playbgm", Params("bgm1.mp3", Undefined, Undefined)),
          Cmd("playse", Params("se.ogg", Undefined, Undefined))}
    \cup {Cmd("image", Params("fg.png", l, Undefined)) :
            l \in Layers \cup {Undefined}}
    \cup {Cmd("freeimage", Params(Undefined, l, Undefined)) :
            l \in Layers \cup {"0", Undefined}}
    \cup {Cmd("chara_show", Params("face.png", Undefined, n)) :
            n \in Names \cup {Undefined}}
    \cup {Cmd("chara_hide", Params(Undefined, Undefined, n)) :
            n \in Names \cup {Undefined}}
    \cup {Cmd("jump", Params(s, Undefined, Undefined)) :
            s \in {"next.ks", Undefined}}

\* ------------------------------------------------------- a line of tags
\* One more match of /\[name(?:\s[^\]]*)?]/gi on the line.
Count(cmd, name, n) == IF cmd.name = name THEN n + 1 ELSE n

\* Lines 177-213: the pacing code after processLineWithTags.
endOfTagLine(f, p, l, cm) == bracketCm(bracketL(bracketP(f, p), l), cm)

\* ---------------------------------------------------------- the history
\* What the file of the latest call has shown: an external jump; a halt
\* line ([s] or @s) after such a jump; a halt tag written directly after an
\* external jump tag on one line (jumpAt is the place of the line's latest
\* external jump tag); a label line that ended the scan; that the line
\* being read lies inside a block comment (after a line holding the start
\* mark, before the line holding the end mark); that the call has raised an
\* exception; the layer of the open image that was opened with a name
\* parameter ("" when there is none).
NothingSeen ==
    [jump |-> FALSE, haltLine |-> FALSE, haltTag |-> FALSE,
     jumpAt |-> 0, labelEnd |-> FALSE,
     inBlock |-> FALSE, raised |-> FALSE, namedLayer |-> ""]

\* The layer an image or freeimage tag addresses (lines 370 and 401).
LayerOf(cmd) ==
    IF cmd.name = "image"
    THEN IF cmd.params.layer = Undefined THEN "0" ELSE cmd.params.layer
    ELSE IF cmd.params.layer # Undefined THEN cmd.params.layer
    ELSE cmd.params.name

\* The history s after an image or freeimage command.
SeenImage(s, cmd) ==
    IF cmd.name = "image" /\ cmd.params.name # Undefined
    THEN [s EXCEPT !.namedLayer = LayerOf(cmd)]
    ELSE IF cmd.name \in {"image", "freeimage"} /\ LayerOf(cmd) = s.namedLayer
    THEN [s EXCEPT !.namedLayer = ""]
    ELSE s

IsExternalJump(cmd) == cmd.name = "jump" /\ cmd.params.storage = "next.ks"

SeenJump(cmd) ==
    IF IsExternalJump(cmd) THEN [seen EXCEPT !.jump = TRUE] ELSE seen

SeenHaltLine ==
    IF seen.jump THEN [seen EXCEPT !.haltLine = TRUE] ELSE seen

SeenTag(cmd) ==
    IF IsExternalJump(cmd)
    THEN [seen EXCEPT !.jump = TRUE, !.jumpAt = tagIndex + 1]
    ELSE IF cmd.name = "s" /\ seen.jumpAt = tagIndex
    THEN [seen EXCEPT !.haltTag = TRUE]
    ELSE seen

\* The history of the dialogue text and the pacing commands of the file:
\* bufClock is the clock at the moment the first fragment entered the empty
\* buffer (null while the buffer is empty); boundary says that a page-wait,
\* line-wait or message-clear was decoded after the latest fragment entered
\* the buffer it is still in; quiet says that the file has shown no
\* page-wait, line-wait, message-clear or text so far; setupCm says that the
\* line being scanned holds a message-clear decoded while the file was quiet.
NoDialogue ==
    [bufClock |-> null, boundary |-> FALSE, quiet |-> TRUE, setupCm |-> FALSE,
     said |-> NoSpeaker]

\* A speaker line has been read: said is the name its line gave (NoSpeaker
\* for a bare #, and while the file has shown no speaker line).
DialogueSpeaker(name) ==
    [dialogue EXCEPT !.bufClock = null, !.boundary = FALSE,
                     !.said = IF name = "" THEN NoSpeaker ELSE name]

IsPacing(cmd) == cmd.name \in {"p", "l", "cm"}

\* The buffer has been emptied.
DialogueFlushed == [dialogue EXCEPT !.bufClock = null, !.boundary = FALSE]

\* A tag of a line of tags and text has been decoded.
DialogueTag(cmd) ==
    IF IsPacing(cmd)
    THEN [dialogue EXCEPT !.boundary = @ \/ textBuffer # <<>>,
                          !.setupCm = @ \/ (cmd.name = "cm" /\ dialogue.quiet),
                          !.quiet = FALSE]
    ELSE dialogue

\* A text piece has entered the buffer.
DialogueText ==
    [dialogue EXCEPT !.bufClock = IF textBuffer = <<>> THEN currentTime ELSE @,
                     !.boundary = FALSE,
                     !.quiet = FALSE]

\* An at-form line has been processed: @p and @cm empty the buffer, @l does
\* not.
DialogueAt(cmd) ==
    IF cmd.name \in {"p", "cm"}
    THEN [DialogueFlushed EXCEPT !.quiet = FALSE]
    ELSE IF cmd.name = "l"
    THEN [dialogue EXCEPT !.boundary = @ \/ textBuffer # <<>>, !.quiet = FALSE]
    ELSE dialogue

\* The pacing code of a line of tags has run and left the buffer as given.
DialogueEndLine(buffer) ==
    IF buffer = <<>>
    THEN [DialogueFlushed EXCEPT !.setupCm = FALSE]
    ELSE [dialogue EXCEPT !.setupCm = FALSE]

\* ----------------------------------------------------------- the actions
AtLineStart == pc = "lines" /\ tagIndex = 0 /\ nPieces < MaxPieces

InLine == pc = "lines" /\ tagIndex < MaxTags /\ nPieces < MaxPieces

Consumed ==
    /\ nPieces' = nPieces + 1
    /\ UNCHANGED <<pc, phase, nFiles>>
    /\ UNCHANGED appVars

Clear ==
    /\ pc = "idle"
    /\ phase \notin {"fresh", "cleared"}
    /\ StoreFrame(NoFrame(Fresh))
    /\ phase' = "cleared"
    /\ nFiles' = 0
    /\ nPieces' = 0
    /\ seen' = NothingSeen
    /\ dialogue' = NoDialogue
    /\ UNCHANGED <<pc, lineVars, lineStartTime>>
    /\ UNCHANGED appVars

ProcessFile ==
    /\ pc = "idle"
    /\ nFiles < MaxFiles
    /\ StoreFrame(EnterFile(This, nFiles + 1))
    /\ pc' = "lines"
    /\ nFiles' = nFiles + 1
    /\ phase' = IF phase \in {"sealed", "reused"} THEN "reused" ELSE "building"
    /\ seen' = NothingSeen
    /\ lineStartTime' = currentTime
    /\ dialogue' = NoDialogue
    /\ UNCHANGED <<lineVars, nPieces>>
    /\ UNCHANGED appVars

\* Line 82.
CommentLine ==
    /\ AtLineStart
    /\ Consumed
    /\ UNCHANGED <<procVars, fileVars, lineVars, histVars>>

\* Lines 97-104: the line is [s].
HaltLine ==
    /\ AtLineStart
    /\ StoreFrame(HaltSeen(Frame))
    /\ seen' = SeenHaltLine
    /\ Consumed
    /\ UNCHANGED <<lineVars, lineStartTime, dialogue>>

\* Lines 106-114: a label line ends the scan of the file once
\* passedJumpAndStop is set, and is skipped otherwise.
LabelLine ==
    /\ AtLineStart
    /\ IF passedJumpAndStop
       THEN /\ StoreFrame(NoFrame(flushRest(Frame).t))
            /\ pc' = "idle"
            /\ seen' = [seen EXCEPT !.labelEnd = TRUE]
            /\ dialogue' = DialogueFlushed
       ELSE /\ UNCHANGED <<procVars, fileVars, pc, seen, dialogue>>
    /\ nPieces' = nPieces + 1
    /\ UNCHANGED <<lineVars, phase, nFiles, lineStartTime>>
    /\ UNCHANGED appVars

\* Lines 116-158.
AtStep(cmd) ==
    /\ StoreFrame(IF cmd.name = "s" THEN HaltSeen(Frame)
                                    ELSE atLine(Frame, cmd))
    /\ seen' = IF cmd.name = "s" THEN SeenHaltLine
                                  ELSE SeenImage(SeenJump(cmd), cmd)
    /\ dialogue' = DialogueAt(cmd)
    /\ lineStartTime' = currentTime'
    /\ Consumed
    /\ UNCHANGED lineVars

AtLine == AtLineStart /\ \E cmd \in Commands : AtStep(cmd)

\* Lines 160-170.
SpeakerStep(name) ==
    /\ StoreFrame(speakerLine(Frame, name))
    /\ dialogue' = DialogueSpeaker(name)
    /\ Consumed
    /\ UNCHANGED <<lineVars, seen, lineStartTime>>

SpeakerLine == AtLineStart /\ \E name \in Speakers : SpeakerStep(name)

\* Lines 172-175, 247-274: the next tag of a line of tags and text.  A line
\* that is [s] alone is a halt line, so the tag s is not the first piece.
TagStep(cmd) ==
    /\ cmd.name = "s" => tagIndex > 0
    /\ StoreFrame(tagOfLine(Frame, cmd))
    /\ pMatches' = Count(cmd, "p", pMatches)
    /\ lMatches' = Count(cmd, "l", lMatches)
    /\ cmMatches' = Count(cmd, "cm", cmMatches)
    /\ seen' = SeenImage(SeenTag(cmd), cmd)
    /\ dialogue' = DialogueTag(cmd)
    /\ tagIndex' = tagIndex + 1
    /\ Consumed
    /\ UNCHANGED lineStartTime

TagOfLine == InLine /\ \E cmd \in Commands : TagStep(cmd)

\* The next text piece of a line of tags and text.
TextStep(text) ==
    /\ StoreFrame(textOfLine(Frame, text))
    /\ dialogue' = DialogueText
    /\ tagIndex' = tagIndex + 1
    /\ Consumed
    /\ UNCHANGED <<pMatches, lMatches, cmMatches, seen, lineStartTime>>

TextOfLine == InLine /\ \E text \in Texts : TextStep(text)

\* Lines 177-213: the line has been matched to its end.
EndTagLine ==
    /\ pc = "lines" /\ tagIndex > 0
    /\ StoreFrame(endOfTagLine(Frame, pMatches, lMatches, cmMatches))
    /\ tagIndex' = 0 /\ pMatches' = 0 /\ lMatches' = 0 /\ cmMatches' = 0
    /\ seen' = [seen EXCEPT !.jumpAt = 0]
    /\ dialogue' = DialogueEndLine(
                        endOfTagLine(Frame, pMatches, lMatches, cmMatches).textBuffer)
    /\ lineStartTime' = currentTime'
    /\ UNCHANGED <<pc, phase, nFiles, nPieces>>
    /\ UNCHANGED appVars

\* Lines 77, 219-223: no line is left.
EndOfFile ==
    /\ pc = "lines" /\ tagIndex = 0
    /\ StoreFrame(NoFrame(flushRest(Frame).t))
    /\ pc' = "idle"
    /\ dialogue' = DialogueFlushed
    /\ UNCHANGED <<lineVars, phase, nFiles, nPieces, seen, lineStartTime>>
    /\ UNCHANGED appVars

Finalize ==
    /\ pc = "idle"
    /\ Store(finalize(This))
    /\ phase' = "sealed"
    /\ UNCHANGED <<fileVars, lineVars, pc, nFiles, nPieces, histVars>>
    /\ UNCHANGED appVars

\* An invocation of buildAndRenderTimeline that has not begun.
NoBuild == [pc |-> "none", files |-> <<>>, i |-> 0]

\* The constructor (lines 8-30); no call is running.
Init ==
    /\ events = <<>>
    /\ tracks = EmptyTracks
    /\ currentTime = 0
    /\ totalTime = 0
    /\ activeBgm = null
    /\ activeImages = EmptyMap
    /\ activeCharas = EmptyMap
    /\ activeBg = null
    /\ activeVideo = null
    /\ filename = 0
    /\ currentSpeaker = NoSpeaker
    /\ textBuffer = <<>>
    /\ textStartTime = 0
    /\ hasExternalJump = FALSE
    /\ passedJumpAndStop = FALSE
    /\ hasVisualContent = FALSE
    /\ firstCmSkipped = FALSE
    /\ tagIndex = 0 /\ pMatches = 0 /\ lMatches = 0 /\ cmMatches = 0
    /\ pc = "idle"
    /\ phase = "fresh"
    /\ nFiles = 0
    /\ nPieces = 0
    /\ seen = NothingSeen
    /\ lineStartTime = 0
    /\ dialogue = NoDialogue
    /\ parsedFiles = <<>>
    /\ fileHandles = {}
    /\ builds = [b \in 1..MaxBuilds |-> NoBuild]
    /\ calls = <<>>

Next ==
    \/ Clear
    \/ ProcessFile
    \/ LabelLine
    \/ HaltLine
    \/ CommentLine
    \/ AtLine
    \/ SpeakerLine
    \/ TagOfLine
    \/ TextOfLine
    \/ EndTagLine
    \/ EndOfFile
    \/ Finalize

Spec == Init /\ [][Next]_vars

\* Every command on a line of its own: a line of tags holds one piece.
OwnLineTag == tagIndex = 0 /\ TagOfLine

OwnLineText == tagIndex = 0 /\ TextOfLine

NextOwnLine ==
    \/ Clear
    \/ ProcessFile
    \/ LabelLine
    \/ HaltLine
    \/ CommentLine
    \/ AtLine
    \/ SpeakerLine
    \/ OwnLineTag
    \/ OwnLineText
    \/ EndTagLine
    \/ EndOfFile
    \/ Finalize

SpecOwnLine == Init /\ [][NextOwnLine]_vars

\* The first processFile call of a session.
FirstFile == nFiles = 0 /\ ProcessFile

\* Sessions of the pacing scenarios: one longer file over the pacing tags,
\* the video commands, a background, a speaker and text.
ScenarioCommands ==
    {Cmd(n, NoParams) : n \in {"p", "l", "cm"}}
    \cup {Cmd("bg", Params("room.png", Undefined, Undefined))}
    \cup {Cmd(n, Params("op.mp4", Undefined, Undefined)) :
            n \in {"video", "movie", "bgmovie"}}

ScenarioLineStart ==
    pc = "lines" /\ tagIndex = 0 /\ nPieces < MaxScenarioPieces

ScenarioInLine == pc = "lines" /\ nPieces < MaxScenarioPieces

ScenarioAtLine ==
    ScenarioLineStart /\ \E cmd \in ScenarioCommands : AtStep(cmd)

ScenarioSpeakerLine == ScenarioLineStart /\ SpeakerStep("Alice")

ScenarioTag == ScenarioInLine /\ \E cmd \in ScenarioCommands : TagStep(cmd)

ScenarioText == ScenarioInLine /\ \E text \in Texts : TextStep(text)

NextScenarios ==
    \/ FirstFile
    \/ ScenarioAtLine
    \/ ScenarioSpeakerLine
    \/ ScenarioTag
    \/ ScenarioText
    \/ EndTagLine
    \/ EndOfFile
    \/ Finalize

SpecScenarios == Init /\ [][NextScenarios]_vars

\* Files that also use the second names of the handlers: one processFile
\* call over every command name processCommand knows.
AliasCommands ==
    {Cmd(n, NoParams) : n \in {"free_video", "fadeoutbgm"}}
    \cup {Cmd("bgmovie", Params("op.mp4", Undefined, Undefined)),
          Cmd("fadeinbgm", Params("bgm1.mp3", Undefined, Undefined)),
          Cmd("fadeinse", Params("se.ogg", Undefined, Undefined))}

AllCommands == Commands \cup AliasCommands

AnyAtLine == AtLineStart /\ \E cmd \in AllCommands : AtStep(cmd)

AnyTagOfLine == InLine /\ \E cmd \in AllCommands : TagStep(cmd)

NextAllNames ==
    \/ FirstFile
    \/ LabelLine
    \/ HaltLine
    \/ CommentLine
    \/ AnyAtLine
    \/ SpeakerLine
    \/ AnyTagOfLine
    \/ TextOfLine
    \/ EndTagLine
    \/ EndOfFile
    \/ Finalize

SpecAllNames == Init /\ [][NextAllNames]_vars

\* Files as the caller reads them from disk (processFile gets the text of
\* the file unchanged): one file that may hold block comments, a character
\* name that an object literal inherits as a property, and images opened
\* with a name parameter.
BlockStartMark == "/*"

InheritedKeys == {"constructor"}

NamedCommands ==
    {Cmd("image", Params("fg.png", l, "logo")) : l \in Layers \cup {Undefined}}
    \cup {Cmd("freeimage", Params(Undefined, Undefined, "logo"))}

RawCommands == Commands \cup NamedCommands

HostileCommands ==
    {Cmd("chara_show", Params("face.png", Undefined, n)) : n \in InheritedKeys}

\* Lines 431-434: for a name that {} inherits, this.tracks.chara[name] is the
\* inherited value, the track is not created and push is not a function.
charaShowRaises(t, params) ==
    /\ params.name \in InheritedKeys
    /\ ~Has(t.tracks.chara, params.name)

\* A line that holds the start mark of a block comment: it begins with none
\* of the characters lines 82-160 test for and holds no tag, so it reaches
\* the buffer as text.
BlockStart ==
    /\ AtLineStart
    /\ ~seen.inBlock
    /\ StoreFrame(textOfLine(Frame, BlockStartMark))
    /\ seen' = [seen EXCEPT !.inBlock = TRUE]
    /\ dialogue' = DialogueText
    /\ Consumed
    /\ UNCHANGED <<lineVars, lineStartTime>>

\* A line that holds the end mark of a block comment: it begins with the
\* character of a label line (lines 106-114).
BlockEnd ==
    /\ AtLineStart
    /\ seen.inBlock
    /\ IF passedJumpAndStop
       THEN /\ StoreFrame(NoFrame(flushRest(Frame).t))
            /\ pc' = "idle"
            /\ seen' = [seen EXCEPT !.labelEnd = TRUE, !.inBlock = FALSE]
            /\ dialogue' = DialogueFlushed
       ELSE /\ seen' = [seen EXCEPT !.inBlock = FALSE]
            /\ UNCHANGED <<procVars, fileVars, pc, dialogue>>
    /\ nPieces' = nPieces + 1
    /\ UNCHANGED <<lineVars, phase, nFiles, lineStartTime>>
    /\ UNCHANGED appVars

\* A chara_show command, as a tag or in at-form, that raises: the exception
\* leaves processLineWithTags and processFile, nothing is flushed.
RaisingLine ==
    /\ InLine
    /\ \E cmd \in HostileCommands : charaShowRaises(This, cmd.params)
    /\ StoreFrame(NoFrame(This))
    /\ pc' = "idle"
    /\ seen' = [seen EXCEPT !.raised = TRUE]
    /\ dialogue' = NoDialogue
    /\ tagIndex' = 0 /\ pMatches' = 0 /\ lMatches' = 0 /\ cmMatches' = 0
    /\ nPieces' = nPieces + 1
    /\ UNCHANGED <<phase, nFiles, lineStartTime>>
    /\ UNCHANGED appVars

RawAtLine == AtLineStart /\ \E cmd \in RawCommands : AtStep(cmd)

RawTagOfLine == InLine /\ \E cmd \in RawCommands : TagStep(cmd)

NextRawFiles ==
    \/ FirstFile
    \/ BlockStart
    \/ BlockEnd
    \/ RaisingLine
    \/ LabelLine
    \/ HaltLine
    \/ CommentLine
    \/ RawAtLine
    \/ SpeakerLine
    \/ RawTagOfLine
    \/ TextOfLine
    \/ EndTagLine
    \/ EndOfFile
    \/ Finalize

SpecRawFiles == Init /\ [][NextRawFiles]_vars

\* ------------------------------------------------------- TyranoFlowApp
\* The file names a project may hold, and what the patterns of
\* isSystemFile and getFileSortPriority read in each: whether it begins
\* with an underscore, the word it holds, and its first and second number
\* (null: no digits there).
FileNames ==
    {"title.ks", "chapter1-01.ks", "chapter1-02.ks", "chapter1_02.ks",
     "_macro.ks"}

NameParts ==
    [n \in FileNames |->
        CASE n = "title.ks" ->
               [underscore |-> FALSE, word |-> "title", n1 |-> null, n2 |-> null]
          [] n = "chapter1-01.ks" ->
               [underscore |-> FALSE, word |-> "chapter", n1 |-> 1, n2 |-> 1]
          [] n = "chapter1-02.ks" ->
               [underscore |-> FALSE, word |-> "chapter", n1 |-> 1, n2 |-> 2]
          [] n = "chapter1_02.ks" ->
               [underscore |-> FALSE, word |-> "chapter", n1 |-> 1, n2 |-> 2]
          [] n = "_macro.ks" ->
               [underscore |-> TRUE, word |-> "macro", n1 |-> null, n2 |-> null]]

\* The words of systemFilePatterns (flowchart.js, lines 12-23).
SystemWords ==
    {"config", "make", "cg", "scene", "replay", "first", "save", "load",
     "backlog", "menu"}

isSystemFile(name) ==
    NameParts[name].underscore \/ NameParts[name].word \in SystemWords

\* parseInt(digits) || 0
ParseInt(n) == IF n = null THEN 0 ELSE n

getFileSortPriority(name) ==
    LET p == NameParts[name]
    IN  IF p.word = "title" THEN [order |-> 10, sub |-> 0]
        ELSE IF p.word \in {"prologue", "prolog"}
        THEN [order |-> 100, sub |-> ParseInt(p.n1)]
        ELSE IF p.word = "chapter" /\ p.n1 # null
        THEN [order |-> 200 + ParseInt(p.n1) * 100, sub |-> ParseInt(p.n2)]
        ELSE IF p.word \in {"epilogue", "epilog"}
        THEN [order |-> 9000, sub |-> ParseInt(p.n1)]
        ELSE IF p.word \in {"ending", "end"}
        THEN [order |-> 9500, sub |-> ParseInt(p.n1)]
        ELSE IF p.n1 # null THEN [order |-> 500, sub |-> p.n1]
        ELSE [order |-> 1000, sub |-> 0]

\* The comparison function of line 94-99 is negative.
SortsBefore(a, b) ==
    LET pa == getFileSortPriority(a)
        pb == getFileSortPriority(b)
    IN  IF pa.order # pb.order THEN pa.order < pb.order ELSE pa.sub < pb.sub

\* Array.prototype.sort: a stable sort.
RECURSIVE InsertSorted(_, _)
InsertSorted(x, sorted) ==
    IF sorted = <<>> THEN <<x>>
    ELSE IF SortsBefore(x, Head(sorted)) THEN <<x>> \o sorted
    ELSE <<Head(sorted)>> \o InsertSorted(x, Tail(sorted))

RECURSIVE SortFiles(_)
SortFiles(files) ==
    IF files = <<>> THEN <<>>
    ELSE InsertSorted(files[Len(files)], SortFiles(SubSeq(files, 1, Len(files) - 1)))

\* getSortedStoryFiles without its lines 94-99: the files are not sorted.
getStoryFilesUnsorted(files) ==
    SelectSeq(files, LAMBDA n : ~isSystemFile(n))

getSortedStoryFiles(files) ==
    SortFiles(SelectSeq(files, LAMBDA n : ~isSystemFile(n)))

\* The text of each file, as its at-form lines.
Contents ==
    [n \in FileNames |->
        CASE n = "title.ks" ->
               <<Cmd("bg", Params("room.png", Undefined, Undefined)),
                 Cmd("p", NoParams)>>
          [] n = "chapter1-01.ks" ->
               <<Cmd("playbgm", Params("bgm1.mp3", Undefined, Undefined)),
                 Cmd("l", NoParams)>>
          [] n = "chapter1-02.ks" ->
               <<Cmd("chara_show", Params("face.png", Undefined, "akane")),
                 Cmd("p", NoParams)>>
          [] n = "chapter1_02.ks" ->
               <<Cmd("image", Params("fg.png", "1", Undefined)),
                 Cmd("p", NoParams)>>
          [] n = "_macro.ks" ->
               <<Cmd("playse", Params("se.ogg", Undefined, Undefined))>>]

\* Lines 77-216 for a file of at-form lines.
RECURSIVE scanLines(_, _)
scanLines(f, lines) ==
    IF lines = <<>> THEN f
    ELSE LET cmd == Head(lines)
             f1 == IF cmd.name = "s" THEN HaltSeen(f) ELSE atLine(f, cmd)
         IN  scanLines(f1, Tail(lines))

\* processFile as one call: the object after processFile(content, fname).
processFile(t, content, fname) ==
    flushRest(scanLines(EnterFile(t, fname), content)).t

\* The first index from i on of a file that has a handle
\* (Len(files) + 1: there is none).
RECURSIVE NextReadable(_, _)
NextReadable(files, i) ==
    IF i > Len(files) \/ files[i] \in fileHandles THEN i
    ELSE NextReadable(files, i + 1)

\* The catch block of lines 2478-2480 as if it left the loop.
onReadErrorLeave(files, i) == Len(files) + 1

\* The catch block of lines 2478-2480: the loop goes on with the file
\* after the one that could not be read.
onReadError(files, i) == i + 1

Call(b, op, name) == [build |-> b, op |-> op, file |-> name]

\* The timeline after a call made by the application (no processFile call
\* is running between two steps of a build).
StoreTimeline(t, ph) ==
    /\ Store(t)
    /\ phase' = ph
    /\ UNCHANGED <<fileVars, lineVars, pc, nFiles, nPieces, histVars>>

\* Lines 2460-2495 from the loop's index i on, up to the next await or to
\* the end of the function, with t the timeline and log the calls so far.
Resume(b, files, t, ph, i, log) ==
    LET n == NextReadable(files, i)
    IN  IF n <= Len(files)
        THEN /\ StoreTimeline(t, ph)
             /\ builds' = [builds EXCEPT
                              ![b] = [pc |-> "getFile", files |-> files, i |-> n]]
             /\ calls' = log
        ELSE /\ StoreTimeline(finalize(t), "sealed")
             /\ builds' = [builds EXCEPT
                              ![b] = [pc |-> "done", files |-> files, i |-> n]]
             /\ calls' = Append(log, Call(b, "finalize", ""))

\* Lines 1181-1190 and 2438-2462: a click on the timeline tab begins an
\* invocation, which runs up to its first await.
ClickTimelineTab ==
    \E b \in 1..MaxBuilds :
        /\ builds[b].pc = "none"
        /\ \A c \in 1..(b - 1) : builds[c].pc # "none"
        /\ LET log == Append(calls, Call(b, "clear", ""))
           IN  IF Len(parsedFiles) = 0
               THEN /\ StoreTimeline(Fresh, "cleared")
                    /\ builds' = [builds EXCEPT ![b].pc = "done"]
                    /\ calls' = log
               ELSE Resume(b, getSortedStoryFiles(parsedFiles), Fresh,
                           "cleared", 1, log)
        /\ UNCHANGED <<parsedFiles, fileHandles>>

\* Line 2465: await handle.getFile() resolves.
GetFileResolves ==
    \E b \in 1..MaxBuilds :
        /\ builds[b].pc = "getFile"
        /\ builds' = [builds EXCEPT ![b].pc = "text"]
        /\ UNCHANGED <<procVars, fileVars, lineVars, pc, phase, nFiles,
                       nPieces, histVars, parsedFiles, fileHandles, calls>>

\* Line 2465: await handle.getFile() rejects.
GetFileRejectsIn(b) ==
    /\ builds[b].pc = "getFile"
    /\ Resume(b, builds[b].files, This, phase,
              onReadError(builds[b].files, builds[b].i), calls)
    /\ UNCHANGED <<parsedFiles, fileHandles>>

GetFileRejects == \E b \in 1..MaxBuilds : GetFileRejectsIn(b)

\* Lines 2466-2477: await file.text() resolves and the file is processed.
TextResolves ==
    \E b \in 1..MaxBuilds :
        /\ builds[b].pc = "text"
        /\ LET name == builds[b].files[builds[b].i]
               t == processFile(This, Contents[name], name)
               ph == IF phase \in {"sealed", "reused"} THEN "reused"
                                                       ELSE "building"
           IN  Resume(b, builds[b].files, t, ph, builds[b].i + 1,
                      Append(calls, Call(b, "processFile", name)))
        /\ UNCHANGED <<parsedFiles, fileHandles>>

\* Line 2466: await file.text() rejects.
TextRejectsIn(b) ==
    /\ builds[b].pc = "text"
    /\ Resume(b, builds[b].files, This, phase,
              onReadError(builds[b].files, builds[b].i), calls)
    /\ UNCHANGED <<parsedFiles, fileHandles>>

TextRejects == \E b \in 1..MaxBuilds : TextRejectsIn(b)

\* The registrations of up to MaxStoryFiles files, each once.
Registrations ==
    {files \in UNION {[1..n -> FileNames] : n \in 0..MaxStoryFiles} :
        \A i, j \in DOMAIN files : files[i] = files[j] => i = j}

Registered(files) == {files[i] : i \in DOMAIN files}

\* A loaded project: the timeline as constructed, some files registered,
\* at most one of them without a handle, no invocation begun.
InitBuild ==
    /\ events = <<>>
    /\ tracks = EmptyTracks
    /\ currentTime = 0
    /\ totalTime = 0
    /\ activeBgm = null
    /\ activeImages = EmptyMap
    /\ activeCharas = EmptyMap
    /\ activeBg = null
    /\ activeVideo = null
    /\ filename = 0
    /\ currentSpeaker = NoSpeaker
    /\ textBuffer = <<>>
    /\ textStartTime = 0
    /\ hasExternalJump = FALSE
    /\ passedJumpAndStop = FALSE
    /\ hasVisualContent = FALSE
    /\ firstCmSkipped = FALSE
    /\ tagIndex = 0 /\ pMatches = 0 /\ lMatches = 0 /\ cmMatches = 0
    /\ pc = "idle"
    /\ phase = "fresh"
    /\ nFiles = 0
    /\ nPieces = 0
    /\ seen = NothingSeen
    /\ lineStartTime = 0
    /\ dialogue = NoDialogue
    /\ parsedFiles \in Registrations
    /\ fileHandles \in {Registered(parsedFiles) \ m :
                           m \in {{}} \cup {{x} : x \in Registered(parsedFiles)}}
    /\ builds = [b \in 1..MaxBuilds |-> NoBuild]
    /\ calls = <<>>

NextBuild ==
    \/ ClickTimelineTab
    \/ GetFileResolves
    \/ GetFileRejects
    \/ TextResolves
    \/ TextRejects

SpecBuild == InitBuild /\ [][NextBuild]_vars

\* ----------------------------------------------------------- the claims
\* The event lists of all tracks of a tracks object.
TracksOf(tr) ==
    {tr.text, tr.bg, tr.video, tr.bgm, tr.se}
    \cup Values(tr.image) \cup Values(tr.chara)

Closed(e) == e.endTime # null

\* Every track lists its events in the order of their creation, which is
\* the order of their startTime: sorting by startTime leaves it as it is.
TracksSorted ==
    \A tr \in TracksOf(tracks) : \A i \in 1..(Len(tr) - 1) :
        events[tr[i]].startTime <= events[tr[i + 1]].startTime

\* C1: after processFile calls followed by finalize, the events of every
\* track (also se and video), in startTime order, do not overlap:
\* events[i].endTime <= events[i+1].startTime.
C1_NoOverlap ==
    phase = "sealed" =>
        \A tr \in TracksOf(tracks) : \A i \in 1..(Len(tr) - 1) :
            events[tr[i]].endTime <= events[tr[i + 1]].startTime

\* The same for every track but se (not a claim: what the code does keep).
NoOverlapButSe ==
    phase = "sealed" =>
        \A tr \in TracksOf(tracks) \ {tracks.se} : \A i \in 1..(Len(tr) - 1) :
            events[tr[i]].endTime <= events[tr[i + 1]].startTime

\* C2: the clock never goes down: no step of processFile and no finalize
\* lowers currentTime; it returns to 0 only through clear().
ClockStep == Clear \/ currentTime' >= currentTime

C2_ClockMonotone == [][ClockStep]_vars

\* A second file is being scanned with the clock the first one left, and
\* has advanced it.
C2_Witness == nFiles = 2 /\ pc = "lines" /\ lineStartTime >= One /\ currentTime > lineStartTime

\* C3: finalize sets totalTime to the final clock value, leaves no event of
\* the event list or of a track with an unset endTime, and gives every event
\* that was open when it ran the endTime totalTime.
Finalized ==
    /\ currentTime' = currentTime
    /\ totalTime' = currentTime
    /\ \A i \in DOMAIN events' : Closed(events'[i])
    /\ \A tr \in TracksOf(tracks') : \A k \in DOMAIN tr :
           tr[k] \in DOMAIN events' /\ Closed(events'[tr[k]])
    /\ \A i \in DOMAIN events :
           ~Closed(events[i]) => events'[i].endTime = totalTime'

FinalizeStep == Finalize => Finalized

C3_FinalizeCloses == [][FinalizeStep]_vars

\* finalize has closed an image that was open since before the last click.
C3_Witness ==
    /\ phase = "sealed"
    /\ \E l \in DOMAIN activeImages :
          /\ events[activeImages[l]].endTime = totalTime
          /\ events[activeImages[l]].startTime < totalTime

\* C4: channel commands are applied in document order relative to the
\* page-wait tags of their line: on a line that so far holds only page-waits
\* and non-blocking commands, a command that follows k page-wait tags is
\* evaluated at (clock at line start + k), so the events it opens start
\* there and the events it closes end there (Scenario B: the stop command of
\* [playbgm][p][stopbgm][p] closes the bgm event at 1).
InDocumentOrder ==
    (/\ pc = "lines"
     /\ tagIndex' = tagIndex + 1
     /\ lMatches = 0 /\ cmMatches = 0
     /\ currentTime = lineStartTime)
    => LET at == lineStartTime + pMatches * One
       IN  \A i \in DOMAIN events' :
              /\ i \notin DOMAIN events => events'[i].startTime = at
              /\ (i \in DOMAIN events /\ ~Closed(events[i]) /\ Closed(events'[i]))
                    => events'[i].endTime = at

C4_DocumentOrder == [][InDocumentOrder]_vars

\* C5: when a line of the file holds an external jump tag directly followed
\* by the halt tag [s], a later label line ends the processing of the file.
HaltsAtLabel == (LabelLine /\ seen.haltTag) => pc' = "idle"

C5_HaltsAtLabel == [][HaltsAtLabel]_vars

\* C6: with every command on its own line, a label line ends the processing
\* of the file exactly when an external jump and, after it, a halt line have
\* been seen in the file; nothing else but the end of the file ends it, and
\* after the halt the lines are still converted (a bg line opens an event).
LabelStep ==
    /\ LabelLine => (pc' = "idle" <=> seen.haltLine)
    /\ (pc = "lines" /\ pc' = "idle") => (LabelLine \/ EndOfFile)

BgLine ==
    /\ TagOfLine
    /\ Len(events') = Len(events) + 1
    /\ activeBg' = Len(events')
    /\ events'[activeBg'].startTime = currentTime

C6_LabelRule ==
    /\ [][LabelStep]_vars
    /\ []((AtLineStart /\ seen.haltLine) => ENABLED BgLine)

\* A label line has ended the scan of a file.
C6_Witness == pc = "idle" /\ seen.labelEnd /\ seen.jump /\ seen.haltLine

\* C7: no event with a set endTime has zero length: startTime < endTime.
C7_NoZeroLength ==
    \A i \in DOMAIN events :
        Closed(events[i]) => events[i].startTime < events[i].endTime

\* C8: every event with a set endTime has endTime >= startTime, and every
\* se event lasts at least (exactly) 0.5.
C8_Duration ==
    \A i \in DOMAIN events :
        /\ Closed(events[i]) => events[i].endTime >= events[i].startTime
        /\ events[i].type = "se" =>
              events[i].endTime - events[i].startTime = Half

\* An se event, and a text event that a page-wait has flushed.
C8_Witness ==
    /\ \E i \in DOMAIN events : events[i].type = "se"
    /\ \E i \in DOMAIN events :
          events[i].type = "text" /\ events[i].endTime > events[i].startTime

\* C9: once an event's endTime is set, no operation but clear() changes the
\* event: not a command, a later processFile, finalize, or a processFile
\* after finalize.
ClosedStay ==
    \A i \in DOMAIN events :
        Closed(events[i]) => (i \in DOMAIN events' /\ events'[i] = events[i])

C9_Immutable == [][Clear \/ ClosedStay]_vars

\* The same up to the first finalize (not a claim: what the code does keep).
ClosedStayBeforeFinalize ==
    phase \in {"fresh", "building"} => (Clear \/ ClosedStay)

ImmutableBeforeFinalize == [][ClosedStayBeforeFinalize]_vars

\* The channel and sub-key of an event.
KeyOf(e) ==
    CASE e.type = "image" -> <<"image", e.layer>>
      [] e.type = "chara" -> <<"chara", e.name>>
      [] OTHER -> <<e.type, "">>

OpenIds == {i \in DOMAIN events : ~Closed(events[i])}

SlotIds ==
    ({activeBg, activeBgm, activeVideo} \ {null})
    \cup Values(activeImages) \cup Values(activeCharas)

\* C10: before finalize, at every command boundary, the events with an unset
\* endTime are exactly the events the active slots refer to, each slot
\* refers to an event of its own channel and sub-key, so every (channel,
\* subKey) has at most one open event; text, se and blocking-video events
\* are never open.
C10_OpenIsActive ==
    phase \in {"fresh", "building"} =>
        /\ OpenIds = SlotIds
        /\ activeBg # null => events[activeBg].type = "bg"
        /\ activeBgm # null => events[activeBgm].type = "bgm"
        /\ activeVideo # null =>
              events[activeVideo].type = "video"
              /\ events[activeVideo].command = "video"
        /\ \A l \in DOMAIN activeImages :
              KeyOf(events[activeImages[l]]) = <<"image", l>>
        /\ \A n \in DOMAIN activeCharas :
              KeyOf(events[activeCharas[n]]) = <<"chara", n>>
        /\ \A i, j \in OpenIds :
              KeyOf(events[i]) = KeyOf(events[j]) => i = j
        /\ \A i \in OpenIds : events[i].type \notin {"text", "se"}

\* A background superseded by another, with a character and an image open.
C10_Witness ==
    /\ phase = "building"
    /\ activeBg # null
    /\ \E i \in DOMAIN events : events[i].type = "bg" /\ Closed(events[i])
    /\ DOMAIN activeCharas # {}

\* C11: a blocking video command (movie or bgmovie, as a tag or in at-form)
\* processed at clock t creates one video event that starts at t, advances
\* the clock by exactly one, ends the event at t + 1 and leaves the video
\* slot empty; the pacing tags of the line continue from t + 1.  Scenario C:
\* on the line [movie storage="op.mp4"][p]text[p] of a fresh session the one
\* video event is {0, 1} and the clock ends at 3.
IsBlocking(cmd) == cmd.name \in {"movie", "bgmovie"}

BlockingStep ==
    \E cmd \in ScenarioCommands : IsBlocking(cmd) /\ (TagStep(cmd) \/ AtStep(cmd))

BlockingEffect ==
    /\ Len(events') = Len(events) + 1
    /\ events'[Len(events')].type = "video"
    /\ events'[Len(events')].startTime = currentTime
    /\ events'[Len(events')].endTime = currentTime + One
    /\ \A i \in DOMAIN events : Closed(events[i]) => events'[i] = events[i]
    /\ tracks'.video = Append(tracks.video, Len(events'))
    /\ currentTime' = currentTime + One
    /\ activeVideo' = null

\* The line of Scenario C has been matched to its end: a movie tag, text
\* after it, two page-waits of which one follows the text.
ScenarioCLine ==
    /\ phase = "building"
    /\ nFiles = 1 /\ nPieces = 4 /\ tagIndex = 4 /\ lineStartTime = 0
    /\ pMatches = 2 /\ lMatches = 0 /\ cmMatches = 0
    /\ Len(events) = 1
    /\ events[1].type = "video" /\ events[1].command = "movie"
    /\ Len(textBuffer) = 1
    /\ dialogue.bufClock = One /\ dialogue.boundary

ScenarioCResult ==
    /\ events'[1].type = "video" /\ events'[1].storage = "op.mp4"
    /\ events'[1].startTime = 0 /\ events'[1].endTime = One
    /\ tracks'.video = <<1>>
    /\ activeVideo' = null
    /\ currentTime' = 3 * One

BlockingVideoStep ==
    /\ BlockingStep => BlockingEffect
    /\ (EndTagLine /\ ScenarioCLine) => ScenarioCResult

C11_BlockingVideo == [][BlockingVideoStep]_vars

\* The line of Scenario C has been matched to its end, the movie tag has
\* acted and the pacing code of the line is about to run.
C11_Witness ==
    /\ ScenarioCLine
    /\ events[1].startTime = 0 /\ events[1].endTime = One
    /\ activeVideo = null
    /\ currentTime = One

\* C12: the startTime of every text event is the clock value at the moment
\* the first fragment of that event entered the empty buffer, whichever
\* commands (line-wait, message-clear, blocking video) advanced the clock
\* since the previous flush or the start of the file.
TextStartStep ==
    \A i \in DOMAIN events' :
        (i \notin DOMAIN events /\ events'[i].type = "text")
            => events'[i].startTime = dialogue.bufClock

C12_TextStart == [][TextStartStep]_vars

\* C13: a text event flushed by a page-wait or a message-clear ends at the
\* clock value that command finds plus one; a text event flushed by a
\* speaker line or by the end of the file ends at the current clock.
\* Scenario A ([bg storage="room.png"], #Alice, Hello.[p]) yields the text
\* event {Alice, Hello., 0, 1} and one bg event opened at 0, which finalize
\* closes at totalTime.
\* The buffered text is flushed into one new text event that ends at time.
FlushedAt(time) ==
    textBuffer # <<>> =>
        /\ Len(events') = Len(events) + 1
        /\ events'[Len(events')].type = "text"
        /\ events'[Len(events')].text = textBuffer
        /\ events'[Len(events')].speaker = currentSpeaker
        /\ events'[Len(events')].endTime = time
        /\ textBuffer' = <<>>

\* The pacing code of a line: the page-waits run first, then the line-waits,
\* then the message-clears, each finding the clock the former left.
FlushByLine ==
    /\ pMatches > 0 => FlushedAt(currentTime + One)
    /\ (pMatches = 0 /\ cmMatches > 0) =>
           FlushedAt(currentTime + lMatches * One + One)

FlushByAt ==
    \A cmd \in ScenarioCommands :
        (cmd.name \in {"p", "cm"} /\ AtStep(cmd)) => FlushedAt(currentTime + One)

\* The last line of Scenario A has been matched to its end.
ScenarioALine ==
    /\ phase = "building"
    /\ nFiles = 1 /\ nPieces = 4 /\ tagIndex = 2 /\ lineStartTime = 0
    /\ pMatches = 1
    /\ Len(events) = 1 /\ events[1].type = "bg"
    /\ currentSpeaker = "Alice"
    /\ Len(textBuffer) = 1
    /\ dialogue.boundary

ScenarioAResult ==
    /\ Len(events') = 2
    /\ events'[1] = [type |-> "bg", storage |-> "room.png", startTime |-> 0,
                     endTime |-> null, filename |-> 1]
    /\ activeBg' = 1
    /\ events'[2] = [type |-> "text", speaker |-> "Alice", text |-> <<"Hello.">>,
                     startTime |-> 0, endTime |-> One, filename |-> 1]
    /\ currentTime' = One

\* finalize closes the one background at totalTime.
ScenarioASealed ==
    (activeBg # null /\ ~Closed(events[activeBg])) =>
        /\ totalTime' = currentTime
        /\ events'[activeBg].endTime = totalTime'
        /\ events'[activeBg].startTime = events[activeBg].startTime

TextEndStep ==
    /\ EndTagLine => FlushByLine
    /\ FlushByAt
    /\ (ScenarioSpeakerLine \/ EndOfFile) => FlushedAt(currentTime)
    /\ (EndTagLine /\ ScenarioALine) => ScenarioAResult
    /\ Finalize => ScenarioASealed

C13_TextEnd == [][TextEndStep]_vars

\* A session like Scenario A: a background opened at 0 and still open, and
\* the text of Alice flushed by the one pacing command of the file.
C13_Witness ==
    /\ phase = "building" /\ pc = "lines" /\ tagIndex = 0
    /\ nFiles = 1 /\ nPieces = 4
    /\ currentTime = One
    /\ Len(events) = 2
    /\ events[1].type = "bg" /\ events[1].startTime = 0 /\ ~Closed(events[1])
    /\ events[2] = [type |-> "text", speaker |-> "Alice", text |-> <<"Hello.">>,
                    startTime |-> 0, endTime |-> One, filename |-> 1]

\* C14: the buffered text is emitted at every flush boundary (page-wait,
\* line-wait, message-clear, speaker line, end of file), so two fragments
\* with a pacing command between them (also a [p] in the middle of a line)
\* never reach the same text event: a fragment joins the fragments still in
\* the buffer only if no pacing command was decoded since the latest of them.
JoinsBuffer == \E text \in Texts : TextStep(text) /\ textBuffer # <<>>

FlushBoundaryStep == JoinsBuffer => ~dialogue.boundary

C14_FlushBoundaries == [][FlushBoundaryStep]_vars

\* C15: the first message-clear of a file that comes, in document order,
\* before any page-wait, line-wait or text of the file leaves the clock
\* unchanged, also when a page-wait or text follows it on its line: an @cm
\* line in a quiet file does not move the clock, and a line of tags that
\* holds such a [cm] moves it by no more than one per other pacing tag.
PacingTags == pMatches + lMatches + cmMatches

AtCmStep == AtStep(Cmd("cm", NoParams))

SetupClearStep ==
    /\ (AtCmStep /\ dialogue.quiet) => currentTime' = currentTime
    /\ (EndTagLine /\ dialogue.setupCm) =>
           currentTime' - currentTime <= (PacingTags - 1) * One

C15_SetupClearFree == [][SetupClearStep]_vars

\* C16: the free message-clear is one-shot per file: at most one
\* message-clear of a file consumes no clock time, every other one (also a
\* second [cm] on the line of the free one) advances the clock by exactly
\* one: a line of tags moves the clock by one per pacing tag, less at most
\* one, and by one per pacing tag once a message-clear of the file was free.
OneShotStep ==
    /\ EndTagLine =>
           /\ currentTime' - currentTime >= (PacingTags - 1) * One
           /\ firstCmSkipped => currentTime' - currentTime = PacingTags * One
    /\ (AtCmStep /\ firstCmSkipped) => currentTime' = currentTime + One

C16_OneShotClear == [][OneShotStep]_vars

\* C17: on a line of tags and text every page-wait and every line-wait
\* advances the clock by exactly one, so a line with n page-waits and m
\* line-waits advances it by n + m (its message-clears add at most one
\* each); an @p or @l line advances it by exactly one; the line-break
\* command r, as a tag or in at-form, never advances it.
WaitsOfLine ==
    /\ currentTime' - currentTime >= (pMatches + lMatches) * One
    /\ currentTime' - currentTime <= PacingTags * One
    /\ cmMatches = 0 => currentTime' = currentTime + (pMatches + lMatches) * One

PacingStep ==
    /\ EndTagLine => WaitsOfLine
    /\ (AtStep(Cmd("p", NoParams)) \/ AtStep(Cmd("l", NoParams)))
           => currentTime' = currentTime + One
    /\ (TagStep(Cmd("r", NoParams)) \/ AtStep(Cmd("r", NoParams)))
           => currentTime' = currentTime

C17_WaitsAdvance == [][PacingStep]_vars

\* Text followed by two line-waits: the clock stands at 2 and the text is
\* still buffered.
C17_Witness ==
    /\ phase = "building" /\ pc = "lines" /\ tagIndex = 0
    /\ nFiles = 1 /\ nPieces = 3
    /\ dialogue.bufClock = 0 /\ dialogue.boundary
    /\ Len(textBuffer) = 1
    /\ events = <<>>
    /\ currentTime = 2 * One

\* C18: the clock changes only when a page-wait, line-wait, message-clear or
\* blocking video (movie, bgmovie) command is processed: a step that changes
\* it is such a tag or at-form line, or the pacing code of a line that holds
\* page-waits, line-waits or message-clears; every other command (under
\* each of its names), speaker, label, comment and halt lines, plain text
\* and finalize leave it as it is.
MovesClock ==
    \/ \E cmd \in AllCommands : IsBlocking(cmd) /\ (TagStep(cmd) \/ AtStep(cmd))
    \/ \E cmd \in AllCommands : IsPacing(cmd) /\ AtStep(cmd)
    \/ EndTagLine /\ PacingTags > 0

LeavesClock ==
    \/ \E cmd \in AllCommands :
          /\ ~IsBlocking(cmd)
          /\ TagStep(cmd) \/ (~IsPacing(cmd) /\ AtStep(cmd))
    \/ SpeakerLine \/ LabelLine \/ CommentLine \/ HaltLine \/ TextOfLine
    \/ EndTagLine /\ PacingTags = 0
    \/ FirstFile \/ EndOfFile \/ Finalize

ClockFrameStep ==
    \/ currentTime' = currentTime
    \/ MovesClock /\ ~LeavesClock

C18_ClockFrame == [][ClockFrameStep]_vars

\* A background, a sound effect under its second name and a speaker line
\* have been processed and the clock has not moved.
C18_Witness ==
    /\ pc = "lines" /\ nPieces = 3 /\ tagIndex = 0
    /\ currentTime = 0
    /\ currentSpeaker = "Alice"
    /\ activeBg # null
    /\ \E i \in DOMAIN events :
          events[i].type = "se" /\ events[i].command = "fadeinse"

\* C19: a video event opened by the non-blocking video command stays open
\* across every command until a wait_video or free_video command, a later
\* video, movie or bgmovie command, the start of the next processFile call
\* or finalize closes it; each of these closes it at the clock of that
\* moment, and every processFile call, before any of its lines, closes a
\* carried-over video at the carried clock value and empties the slot.
VideoOpen == activeVideo # null /\ ~Closed(events[activeVideo])

IsVideoCloser(cmd) ==
    cmd.name \in {"wait_video", "free_video", "video", "movie", "bgmovie"}

VideoCommandStep ==
    \E cmd \in Commands : IsVideoCloser(cmd) /\ (TagStep(cmd) \/ AtStep(cmd))

VideoStays ==
    /\ activeVideo' = activeVideo
    /\ events'[activeVideo] = events[activeVideo]

VideoClosed ==
    /\ activeVideo' # activeVideo
    /\ events'[activeVideo].endTime = currentTime
    /\ events'[activeVideo].startTime = events[activeVideo].startTime

VideoStep ==
    /\ VideoOpen =>
          \/ VideoStays
          \/ Clear
          \/ (VideoCommandStep \/ ProcessFile \/ Finalize) /\ events'[activeVideo].endTime = currentTime
    /\ (VideoOpen /\ (VideoCommandStep \/ ProcessFile)) => VideoClosed
    /\ ProcessFile => (activeVideo' = null /\ currentTime' = currentTime)

SlotsKept ==
    /\ currentTime' = currentTime
    /\ activeBg' = activeBg /\ activeBgm' = activeBgm
    /\ activeImages' = activeImages /\ activeCharas' = activeCharas
    /\ \A i \in DOMAIN events :
           (~Closed(events[i]) /\ i # activeVideo) =>
               (i \in DOMAIN events' /\ events'[i] = events[i])

CarryStep ==
    /\ ProcessFile => (SlotsKept /\ Len(events') = Len(events) /\ tracks' = tracks)
    /\ (pc = "lines" /\ pc' = "idle") => SlotsKept

C20_CarriedAcrossFiles == [][CarryStep]_vars

\* The second file is being scanned with the background and the music the
\* first file opened before its click still open.
C20_Witness ==
    /\ phase = "building" /\ nFiles = 2 /\ pc = "lines"
    /\ currentTime >= One
    /\ activeBg # null /\ activeBgm # null
    /\ events[activeBg].filename = 1 /\ ~Closed(events[activeBg])
    /\ events[activeBgm].filename = 1 /\ ~Closed(events[activeBgm])
    /\ events[activeBg].startTime < currentTime

\* C21: clear() restores exactly the freshly constructed state after any
\* sequence of operations: no events, empty tracks, clock 0, totalTime 0,
\* every active slot empty.  The cleared session is the constructed one in
\* every field, so the same files processed and finalized against it yield
\* the event list they yield against a new one.
Constructed ==
    /\ events = <<>>
    /\ tracks = [text |-> <<>>, bg |-> <<>>, image |-> [k \in {} |-> null],
                 chara |-> [k \in {} |-> null],
                 video |-> <<>>, bgm |-> <<>>, se |-> <<>>]
    /\ currentTime = 0 /\ totalTime = 0
    /\ activeBgm = null /\ activeBg = null /\ activeVideo = null
    /\ DOMAIN activeImages = {} /\ DOMAIN activeCharas = {}
    /\ pc = "idle" /\ textBuffer = <<>>

C21_ClearRestores == phase \in {"fresh", "cleared"} => Constructed

\* clear() has run on a session whose clock had advanced (the history keeps
\* the clock at which the last line scanned before it began).
C21_Witness == phase = "cleared" /\ Constructed /\ lineStartTime >= One

\* C22: block comments are stripped before the scan: between the line with
\* the start mark and the line with the end mark no command, pacing tag,
\* jump or text produces an event, advances the clock, arms the
\* branch-termination rule or reaches the text buffer.
InsideBlockStep ==
    (seen.inBlock /\ seen'.inBlock /\ pc' = "lines") =>
        /\ Len(events') = Len(events)
        /\ currentTime' = currentTime
        /\ hasExternalJump' = hasExternalJump
        /\ passedJumpAndStop' = passedJumpAndStop
        /\ textBuffer' = textBuffer

C22_BlockCommentsStripped == [][InsideBlockStep]_vars

\* C23: every recognised resource command (bg, image, chara_show, video,
\* movie, bgmovie, playbgm, fadeinbgm, playse, fadeinse) creates exactly one
\* event, also when its storage, name or layer parameter is missing.
ResourceNames ==
    {"bg", "image", "chara_show", "video", "movie", "bgmovie",
     "playbgm", "fadeinbgm", "playse", "fadeinse"}

ResourceEvents(evs) == Len(SelectSeq(evs, LAMBDA e : e.type # "text"))

ResourceCommandStep ==
    \E cmd \in Commands :
        cmd.name \in ResourceNames /\ (TagStep(cmd) \/ AtStep(cmd))

ResourceStep ==
    \/ pc # "lines"
    \/ ~ResourceCommandStep
    \/ ResourceEvents(events') = ResourceEvents(events) + 1

C23_OneEventPerCommand == [][ResourceStep]_vars

\* C24: a command whose name is none of the recognised names creates no
\* event, changes no slot, no track and not the clock, and adds nothing of
\* its own to the dialogue buffer.
RecognizedNames ==
    ResourceNames \cup {"freeimage", "chara_hide", "chara_hide_all",
                        "wait_video", "free_video", "stopbgm", "fadeoutbgm",
                        "p", "l", "cm"}

UnknownCommandStep ==
    \E cmd \in Commands :
        cmd.name \notin RecognizedNames /\ (TagStep(cmd) \/ AtStep(cmd))

UnknownStep ==
    \/ pc # "lines"
    \/ ~UnknownCommandStep
    \/ UNCHANGED procVars /\ textBuffer' = textBuffer

C24_UnknownIgnored == [][UnknownStep]_vars

\* A line "text [jump ...] text" has been read: the jump tag, which
\* processCommand does not know, lies between two pieces of text, both
\* pieces are in the buffer and nothing else has changed.
C24_Witness ==
    /\ pc = "lines" /\ tagIndex = 3 /\ seen.jump /\ seen.jumpAt = 2
    /\ Len(textBuffer) = 2
    /\ events = <<>> /\ currentTime = 0
    /\ activeBg = null /\ activeBgm = null /\ activeVideo = null

\* C25: a release command with no matching open event (stopbgm with no open
\* bgm, freeimage for a layer with no open image, chara_hide for a name with
\* no open event, chara_hide_all with none open, wait_video or free_video
\* with no open video) changes no event, no track, no slot and not the clock.
ReleaseNames ==
    {"stopbgm", "fadeoutbgm", "freeimage", "chara_hide", "chara_hide_all",
     "wait_video", "free_video"}

Releases(cmd, e) ==
    CASE cmd.name \in {"stopbgm", "fadeoutbgm"} -> e.type = "bgm"
      [] cmd.name = "freeimage" -> e.type = "image" /\ e.layer = LayerOf(cmd)
      [] cmd.name = "chara_hide" -> e.type = "chara" /\ e.name = cmd.params.name
      [] cmd.name = "chara_hide_all" -> e.type = "chara"
      [] cmd.name \in {"wait_video", "free_video"} -> e.type = "video"
      [] OTHER -> FALSE

NothingToRelease(cmd) ==
    \A i \in DOMAIN events : Releases(cmd, events[i]) => Closed(events[i])

ReleaseStep ==
    \/ pc # "lines"
    \/ \A cmd \in Commands :
          (/\ cmd.name \in ReleaseNames
           /\ NothingToRelease(cmd)
           /\ (TagStep(cmd) \/ AtStep(cmd)))
          => UNCHANGED procVars

C25_ReleaseNoOp == [][ReleaseStep]_vars

\* The same up to the first finalize (not a claim: what the code does keep).
ReleaseBeforeFinalizeStep == phase \in {"fresh", "building"} => ReleaseStep

ReleaseNoOpBeforeFinalize == [][ReleaseBeforeFinalizeStep]_vars

\* C26: processFile never raises, whatever the text: every parameter value,
\* also a character name used as the key of a track, is accepted without
\* an exception.
C26_NeverRaises == ~seen.raised

\* C27: for bg, bgm, each image layer and each character name: when a
\* resource is assigned at clock t while an event of the same channel and
\* sub-key is open, that event gets endTime = t, the new event starts at t
\* and is the only open event of the key, and the open events of every
\* other channel, layer and name are left as they are.
AssignKey(cmd) ==
    CASE cmd.name = "bg" -> <<"bg", "">>
      [] cmd.name \in {"playbgm", "fadeinbgm"} -> <<"bgm", "">>
      [] cmd.name = "image" -> <<"image", LayerOf(cmd)>>
      [] cmd.name = "chara_show" -> <<"chara", cmd.params.name>>

OpenOf(key) == {i \in OpenIds : KeyOf(events[i]) = key}

Reassigned(key) ==
    LET new == Len(events) + 1
    IN  /\ currentTime' = currentTime
        /\ Len(events') = new
        /\ \A i \in OpenOf(key) :
              events'[i] = [events[i] EXCEPT !.endTime = currentTime]
        /\ KeyOf(events'[new]) = key
        /\ events'[new].startTime = currentTime
        /\ {i \in DOMAIN events' :
                ~Closed(events'[i]) /\ KeyOf(events'[i]) = key} = {new}
        /\ \A i \in OpenIds \ OpenOf(key) : events'[i] = events[i]

AssignStep ==
    \/ pc # "lines"
    \/ \A cmd \in Commands :
          (/\ cmd.name \in {"bg", "playbgm", "fadeinbgm", "image", "chara_show"}
           /\ OpenOf(AssignKey(cmd)) # {}
           /\ (TagStep(cmd) \/ AtStep(cmd)))
          => Reassigned(AssignKey(cmd))

C27_AssignReplaces == [][AssignStep]_vars

\* Music was assigned at clock 1 while the music assigned at clock 0 was
\* playing: the first bgm event ends at 1, the second is open from 1 and is
\* the one the slot refers to.
C27_Witness ==
    /\ phase = "building" /\ Len(events) = 2
    /\ events[1].type = "bgm" /\ events[1].startTime = 0
    /\ events[1].endTime = One
    /\ events[2].type = "bgm" /\ events[2].startTime = One
    /\ ~Closed(events[2]) /\ activeBgm = 2
    /\ currentTime = One

\* C28: chara_hide name=N closes only N's open character event, at the
\* current clock; chara_hide_all closes every open character event, at the
\* current clock; afterwards those names have no open event; neither
\* command creates an event, changes the slot of another channel or the
\* clock.
Hides(cmd, e) ==
    /\ e.type = "chara" /\ ~Closed(e)
    /\ cmd.name = "chara_hide" => e.name = cmd.params.name

Hidden(cmd) ==
    /\ currentTime' = currentTime
    /\ Len(events') = Len(events)
    /\ \A i \in DOMAIN events :
          events'[i] = IF Hides(cmd, events[i])
                       THEN [events[i] EXCEPT !.endTime = currentTime]
                       ELSE events[i]
    /\ \A i \in DOMAIN events : Hides(cmd, events[i]) => Closed(events'[i])
    /\ UNCHANGED <<activeBg, activeBgm, activeVideo, activeImages>>

HideStep ==
    \/ pc # "lines"
    \/ \A cmd \in Commands :
          (/\ cmd.name \in {"chara_hide", "chara_hide_all"}
           /\ (TagStep(cmd) \/ AtStep(cmd)))
          => Hidden(cmd)

C28_HideCloses == [][HideStep]_vars

\* The same up to the first finalize (not a claim: what the code does keep).
HideBeforeFinalizeStep == phase \in {"fresh", "building"} => HideStep

HideClosesBeforeFinalize == [][HideBeforeFinalizeStep]_vars

\* C29: freeimage closes the open image event of the layer it identifies
\* and opens no event: for an image opened with layer=L name=N (layer "0"
\* when none is given), freeimage layer=L and freeimage name=N both set
\* the event's endTime to the clock and leave layer L with no open event.
FreesNamed(cmd) ==
    /\ cmd.name = "freeimage"
    /\ seen.namedLayer # ""
    /\ \/ cmd.params.layer = seen.namedLayer
       \/ cmd.params.layer = Undefined /\ cmd.params.name = "logo"

FreedNamed ==
    LET open == OpenOf(<<"image", seen.namedLayer>>)
    IN  /\ Len(events') = Len(events)
        /\ \A i \in open : events'[i].endTime = currentTime
        /\ \A i \in DOMAIN events' :
              KeyOf(events'[i]) = <<"image", seen.namedLayer>>
              => Closed(events'[i])

FreeImageStep ==
    \/ pc # "lines"
    \/ \A cmd \in RawCommands :
          (FreesNamed(cmd) /\ (TagStep(cmd) \/ AtStep(cmd))) => FreedNamed

C29_FreeImageByLayerOrName == [][FreeImageStep]_vars

\* C30: getEventsAtTime(t), called after finalize, returns exactly the
\* events with startTime <= t < endTime, in their order in the event list,
\* and no others.
QueryTimes == 0..(totalTime + One)

ActiveAt(time) ==
    {i \in DOMAIN events :
        events[i].startTime <= time /\ time < events[i].endTime}

\* The k-th smallest index of a set of indexes.
Nth(ids, k) == CHOOSE i \in ids : Cardinality({j \in ids : j <= i}) = k

C30_EventsAtTime ==
    phase = "sealed" =>
        \A time \in QueryTimes :
            LET r == getEventsAtTime(This, time)
            IN  /\ Len(r) = Cardinality(ActiveAt(time))
                /\ \A k \in 1..Len(r) : r[k] = events[Nth(ActiveAt(time), k)]

\* A finalized session with an event that ends at a queried time at which
\* another event is running: the query returns some events and not all.
C30_Witness ==
    /\ phase = "sealed"
    /\ \E time \in QueryTimes :
          /\ time >= One
          /\ \E i \in DOMAIN events : events[i].endTime = time
          /\ getEventsAtTime(This, time) # <<>>
          /\ Len(getEventsAtTime(This, time)) < Len(events)

\* C31: getStats reports the event total of every channel (text,
\* background, image, character, video, bgm, se), totalTime = the clock at
\* finalize, totalEvents = the number of events and trackCount = the
\* number of distinct non-empty tracks.
CountField ==
    [text |-> "textCount", bg |-> "bgCount", image |-> "imageCount",
     chara |-> "charaCount", video |-> "videoCount", bgm |-> "bgmCount",
     se |-> "seCount"]

\* stats[field] is a number (not undefined) and equals n.
StatIs(stats, field, n) == field \in DOMAIN stats /\ stats[field] = n

EventsOfType(type) == Cardinality({i \in DOMAIN events : events[i].type = type})

StatsTotals(stats) ==
    /\ stats.totalEvents = Len(events)
    /\ stats.trackCount =
          Cardinality({tr \in TracksOf(tracks) : tr # <<>>})
    /\ phase = "sealed" => stats.totalTime = currentTime

StatsOf(channels) ==
    LET stats == getStats(This)
    IN  /\ StatsTotals(stats)
        /\ \A ch \in channels :
              StatIs(stats, CountField[ch], EventsOfType(ch))

NoInterleaving ==
    \A i, j, k \in DOMAIN calls :
        (i < j /\ j < k /\ calls[i].build = calls[k].build)
            => calls[j].build = calls[i].build

ReadableStoryFiles ==
    SelectSeq(getSortedStoryFiles(parsedFiles), LAMBDA n : n \in fileHandles)

RECURSIVE ProcessAll(_, _)
ProcessAll(t, files) ==
    IF files = <<>> THEN t
    ELSE ProcessAll(processFile(t, Contents[Head(files)], Head(files)),
                    Tail(files))

\* The timeline after one invocation that runs alone and reads every file.
SequentialBuild ==
    IF Len(parsedFiles) = 0 THEN Fresh
    ELSE finalize(ProcessAll(Fresh, ReadableStoryFiles))

Started == {b \in 1..MaxBuilds : builds[b].pc # "none"}

ProcessedBy(b) ==
    SelectSeq(calls, LAMBDA c : c.build = b /\ c.op = "processFile")

AllFinished ==
    /\ Started # {}
    /\ \A b \in Started :
          /\ builds[b].pc = "done"
          /\ Len(ProcessedBy(b)) = Len(ReadableStoryFiles)

C32_OneBuildSession ==
    /\ NoInterleaving
    /\ AllFinished => This = SequentialBuild

\* The same for one invocation alone (not a claim: what the code does keep).
AloneAsSequential ==
    (AllFinished /\ Started = {1}) => This = SequentialBuild

\* C33: after any sequence of operations every event of the event list is
\* on exactly one track and every track entry is an event of the list, so
\* the lengths of all tracks (text, bg, every image layer, every
\* character, video, bgm, se) add up to events.length.
NamedTracks ==
    {<<"text", "", tracks.text>>, <<"bg", "", tracks.bg>>,
     <<"video", "", tracks.video>>, <<"bgm", "", tracks.bgm>>,
     <<"se", "", tracks.se>>}
    \cup {<<"image", k, tracks.image[k]>> : k \in DOMAIN tracks.image}
    \cup {<<"chara", k, tracks.chara[k]>> : k \in DOMAIN tracks.chara}

\* The entries of all tracks: channel, key, position, event.
TrackEntries ==
    UNION {{<<tr[1], tr[2], k, tr[3][k]>> : k \in DOMAIN tr[3]} :
              tr \in NamedTracks}

C33_TracksPartitionEvents ==
    /\ \A en \in TrackEntries :
          en[4] \in DOMAIN events /\ events[en[4]].type = en[1]
    /\ \A i \in DOMAIN events :
          Cardinality({en \in TrackEntries : en[4] = i}) = 1
    /\ Cardinality(TrackEntries) = Len(events)
    /\ Len(tracks.text) + Len(tracks.bg) + Len(tracks.video)
         + Len(tracks.bgm) + Len(tracks.se)
         + SumOfLengths(tracks.image, DOMAIN tracks.image)
         + SumOfLengths(tracks.chara, DOMAIN tracks.chara) = Len(events)

\* Three events on three tracks: a text event, a character, an image.
C33_Witness ==
    /\ Len(events) = 3
    /\ Len(tracks.text) = 1
    /\ DOMAIN tracks.chara # {}
    /\ DOMAIN tracks.image # {}

\* C34: the branch-skip mode, the external-jump flag, the first
\* message-clear flag, the speaker and the text buffer are reset at the
\* start of every processFile call, and a remaining buffer is flushed at
\* the end of the file, also after a branch halt: no halt, free
\* message-clear, speaker or text of file N reaches file N+1, and no text
\* event holds text of two files.
FileEntered ==
    /\ passedJumpAndStop' = FALSE
    /\ hasExternalJump' = FALSE
    /\ firstCmSkipped' = FALSE
    /\ hasVisualContent' = FALSE
    /\ currentSpeaker' = NoSpeaker
    /\ textBuffer' = <<>>
    /\ textStartTime' = currentTime'
    /\ Len(events') = Len(events)

FileLeft ==
    IF textBuffer = <<>> THEN Len(events') = Len(events)
    ELSE /\ Len(events') = Len(events) + 1
         /\ events'[Len(events')].type = "text"
         /\ events'[Len(events')].text = textBuffer
         /\ events'[Len(events')].filename = filename
         /\ events'[Len(events')].endTime = currentTime

\* The pieces of a text event come from the file that is being scanned.
TextOfOneFile ==
    \A i \in DOMAIN events' \ DOMAIN events :
        events'[i].type = "text" => events'[i].filename = filename

FileResetStep ==
    /\ (pc = "idle" /\ pc' = "lines") => FileEntered
    /\ (pc = "lines" /\ pc' = "idle") => FileLeft
    /\ pc = "lines" => TextOfOneFile

C34_PerFileState == [][FileResetStep]_vars

\* The second file is entered after a file that named a speaker and left
\* text in the buffer at its end: the text is an event of the first file
\* under that speaker, the second file begins with no speaker and an
\* empty buffer.
C34_Witness ==
    /\ nFiles = 2 /\ pc = "lines" /\ nPieces = 2
    /\ Len(events) = 1
    /\ events[1].type = "text" /\ events[1].filename = 1
    /\ events[1].speaker = "Alice"
    /\ currentSpeaker = NoSpeaker /\ textBuffer = <<>>
    /\ filename = 2

\* C35: the speaker of each text event is the name given by the most
\* recent speaker line before its text in the same file (the face suffix
\* dropped), or null when there is none or the line is a bare #; a speaker
\* line flushes the text buffered so far under the previous speaker with
\* endTime = the clock, and does not advance the clock.
NewTextEvents ==
    {i \in DOMAIN events' \ DOMAIN events : events'[i].type = "text"}

SpeakerLineEffect(name) ==
    /\ currentTime' = currentTime
    /\ currentSpeaker' = IF name = "" THEN NoSpeaker ELSE name
    /\ textBuffer' = <<>>
    /\ IF textBuffer = <<>> THEN events' = events
       ELSE /\ events' = Append(events, events'[Len(events')])
            /\ events'[Len(events')].type = "text"
            /\ events'[Len(events')].text = textBuffer
            /\ events'[Len(events')].speaker = currentSpeaker
            /\ events'[Len(events')].endTime = currentTime

SpeakerStepOk ==
    \/ pc # "lines"
    \/ /\ \A i \in NewTextEvents : events'[i].speaker = dialogue.said
       /\ \A name \in Speakers : SpeakerStep(name) => SpeakerLineEffect(name)

C35_Speaker == [][SpeakerStepOk]_vars

\* The lines "#Alice", "Hello." and "#" have been read: the text is an
\* event under Alice that ends at the clock, and there is no speaker now.
C35_Witness ==
    /\ pc = "lines" /\ tagIndex = 0
    /\ Len(events) = 1
    /\ events[1].type = "text" /\ events[1].speaker = "Alice"
    /\ events[1].endTime = currentTime
    /\ currentSpeaker = NoSpeaker /\ dialogue.said = NoSpeaker
    /\ textBuffer = <<>>

\* C36: in every track getTrackList returns, all events have the track's
\* channel and sub-key (image layer or character name) and stand in
\* non-decreasing startTime order; tracks without events are left out and
\* the ids of the tracks are pairwise distinct.
TrackIdOf(e) ==
    CASE e.type = "image" -> "layer" \o e.layer
      [] e.type = "chara" -> "chara_" \o e.name
      [] OTHER -> e.type

TrackOk(tr) ==
    /\ Len(tr.events) > 0
    /\ \A j \in DOMAIN tr.events :
          /\ tr.events[j] \in DOMAIN events
          /\ events[tr.events[j]].type = tr.type
          /\ TrackIdOf(events[tr.events[j]]) = tr.id
    /\ \A j \in 1..(Len(tr.events) - 1) :
          events[tr.events[j]].startTime <= events[tr.events[j + 1]].startTime

C36_TrackList ==
    LET list == getTrackList(This)
    IN  /\ \A k \in DOMAIN list : TrackOk(list[k])
        /\ \A k, l \in DOMAIN list : list[k].id = list[l].id => k = l
        /\ Len(list) = Cardinality({tr \in NamedTracks : tr[3] # <<>>})

\* The track list holds the track of an image layer that was assigned at
\* clock 0 and again at clock 1.
C36_Witness ==
    /\ Len(getTrackList(This)) = 1
    /\ getTrackList(This)[1].id = "layer1"
    /\ Len(getTrackList(This)[1].events) = 2
    /\ events[2].startTime = One

\* C37: after finalize every event has 0 <= startTime <= totalTime, and
\* every event of a channel other than se has endTime <= totalTime.
C37_WithinTotalTime ==
    phase = "sealed" =>
        \A i \in DOMAIN events :
            /\ 0 <= events[i].startTime
            /\ events[i].startTime <= totalTime
            /\ events[i].type # "se" => events[i].endTime <= totalTime

\* A finalized session of clock 1 with a text event that spans it: the
\* event ends at totalTime.
C37_Witness ==
    /\ phase = "sealed" /\ totalTime = One
    /\ \E i \in DOMAIN events :
          /\ events[i].type = "text"
          /\ events[i].startTime = 0 /\ events[i].endTime = totalTime

\* C38: when the read of a story file fails during a build (getFile or
\* text rejects), the events, tracks, slots and clock of the timeline are
\* left as they were before that file, the remaining files are still
\* processed in order, and finalize still runs, so that no event is left
\* open.
\* The readable files of a build after its index i.
RestOf(b) ==
    SelectSeq(SubSeq(builds[b].files, builds[b].i + 1, Len(builds[b].files)),
              LAMBDA n : n \in fileHandles)

ReadFailureStep ==
    \A b \in 1..MaxBuilds :
        (GetFileRejectsIn(b) \/ TextRejectsIn(b)) =>
            IF RestOf(b) # <<>>
            THEN /\ UNCHANGED procVars
                 /\ builds'[b].pc = "getFile"
                 /\ builds'[b].files[builds'[b].i] = Head(RestOf(b))
            ELSE /\ builds'[b].pc = "done"
                 /\ This' = finalize(This)
                 /\ \A i \in DOMAIN events' : Closed(events'[i])

C38_ReadFailureSkipsFile == [][ReadFailureStep]_vars

\* The read of title.ks failed in the only build and the build went on:
\* chapter1-01.ks has been processed on a timeline that holds nothing of
\* title.ks, and finalize has closed its events.
C38_Witness ==
    /\ builds[1].pc = "done" /\ builds[2].pc = "none"
    /\ builds[1].files = <<"title.ks", "chapter1-01.ks">>
    /\ fileHandles = {"title.ks", "chapter1-01.ks"}
    /\ Len(ProcessedBy(1)) = 1
    /\ ProcessedBy(1)[1].file = "chapter1-01.ks"
    /\ phase = "sealed"
    /\ Len(events) = 1 /\ events[1].filename = "chapter1-01.ks"
    /\ Closed(events[1])

\* C39: within one build, processFile is called only after clear() and
\* before finalize(), only for non-system files that have a handle, at
\* most once per file, and in the order of getSortedStoryFiles: ascending
\* order, then ascending sub, ties in the order of registration.
CallsOf(b) == SelectSeq(calls, LAMBDA c : c.build = b)

RegisteredAt(name) == CHOOSE i \in DOMAIN parsedFiles : parsedFiles[i] = name

InBuildOrder(a, b) ==
    LET pa == getFileSortPriority(a)
        pb == getFileSortPriority(b)
    IN  \/ pa.order < pb.order
        \/ pa.order = pb.order /\ pa.sub < pb.sub
        \/ pa.order = pb.order /\ pa.sub = pb.sub
           /\ RegisteredAt(a) < RegisteredAt(b)

BuildCallsOk(b) ==
    LET mine == CallsOf(b)
        read == ProcessedBy(b)
    IN  /\ \A k \in DOMAIN mine : (mine[k].op = "clear") = (k = 1)
        /\ \A k \in DOMAIN mine : mine[k].op = "finalize" => k = Len(mine)
        /\ \A k \in DOMAIN read :
              /\ read[k].file \in Registered(parsedFiles)
              /\ ~NameParts[read[k].file].underscore
              /\ NameParts[read[k].file].word \notin SystemWords
              /\ read[k].file \in fileHandles
        /\ \A j, k \in DOMAIN read :
              j < k => InBuildOrder(read[j].file, read[k].file)

C39_BuildCallOrder == \A b \in 1..MaxBuilds : BuildCallsOk(b)

\* A build has finished over three files registered as chapter1_02.ks,
\* chapter1-02.ks, title.ks: it processed title.ks first and the two
\* chapters, which sort alike, in the order of their registration.
C39_Witness ==
    /\ builds[1].pc = "done"
    /\ parsedFiles = <<"chapter1_02.ks", "chapter1-02.ks", "title.ks">>
    /\ Len(ProcessedBy(1)) = 3
    /\ ProcessedBy(1)[1].file = "title.ks"
    /\ ProcessedBy(1)[2].file = "chapter1_02.ks"
    /\ ProcessedBy(1)[3].file = "chapter1-02.ks"
    /\ CallsOf(1)[Len(CallsOf(1))].op = "finalize"

====
